---- MODULE Spec2Model ----
(***************************************************************************)
(* A model of NDG's topology builder (src/ndg/topology.py).                *)
(*                                                                         *)
(* Host names and addresses are sequences of one-character strings, so     *)
(* that canonicalisation (split at the first dot, lower-case, strip) is    *)
(* computed and not assumed.  The empty string is <<>>.  Interface labels, *)
(* models, versions and device types are never taken apart by the code and *)
(* are plain strings.  A dict is a function; a key that is absent from a   *)
(* dict is absent from the function's DOMAIN.                              *)
(***************************************************************************)
EXTENDS Integers, Sequences, FiniteSets, TLC

VARIABLES
    nodes,             \* Topology.nodes: canonical id -> Node
    edges,             \* Topology.edges: sequence of Edge
    _seen_edges,       \* Topology._seen_edges: set of sorted (source, target) pairs
    calls,             \* the calls made so far on the object, in call order
    device_facts,      \* build_topology's first argument
    neighbor_data,     \* build_topology's second argument
    _host_to_hostname, \* build_topology's local dict host -> hostname
    local_hostname,    \* build_topology's local of the current neighbor record
    facts_idx,         \* number of device_facts records already iterated
    nd_idx,            \* number of neighbor_data records already entered
    nbr_idx,           \* number of observations of the current record already iterated
    pc,                \* position in the program
    c_in,              \* the string handed to _canonicalise
    c_out,             \* the results of the successive _canonicalise applications
    inventory,         \* creds_list: the DeviceCredentials of the batch, in order
    command,           \* "collect" (collect_device_info) or "neighbors" (collect_neighbors)
    results,           \* the batch loop's results list
    dev_idx,           \* number of devices of the batch already entered
    cmds,              \* collect_*'s local: the command set of the device
    parser,            \* collect_*'s local: the parser module of the device
    result,            \* collect_*'s local: the record being filled
    _connection,       \* SSHConnector._connection: None or the Netmiko connection
    live,              \* hosts with an SSH connection established and not yet disconnected
    step_idx,          \* number of probe steps of the current call already passed
    sent,              \* the commands issued on the session during the current call
    parsed,            \* the parser functions invoked during the current call
    outcome,           \* what happened at connect and at each step of the current call
    faults,            \* number of failures injected so far
    queries,           \* the registry lookups made so far, each with what it gave
    parser_module,     \* the parser module whose function is called
    parser_function,   \* the function called: parse_version, parse_cdp_neighbors_detail, ...
    raw_output,        \* the text handed to the parser function
    returned           \* what the parser function returned or raised

topoVars == <<nodes, edges, _seen_edges>>
buildVars == <<device_facts, neighbor_data, _host_to_hostname, local_hostname,
               facts_idx, nd_idx, nbr_idx>>
canonVars == <<c_in, c_out>>
registryVars == <<queries>>
parseVars == <<parser_module, parser_function, raw_output, returned>>
collectVars == <<inventory, command, results, dev_idx, cmds, parser, result,
                 _connection, live, step_idx, sent, parsed, outcome, faults>>
vars == <<nodes, edges, _seen_edges, calls, device_facts, neighbor_data,
          _host_to_hostname, local_hostname, facts_idx, nd_idx, nbr_idx, pc,
          c_in, c_out, collectVars, registryVars, parseVars>>

----------------------------------------------------------------------------
(* Bounds *)

\* total number of records in build_topology's input: one per DeviceFacts,
\* one per NeighborReport, one per neighbor observation
MaxItems == 4

\* number of add_node / add_edge calls made on one Topology
MaxCalls == 3

\* length of the strings handed to _canonicalise
MaxNameLen == 4

----------------------------------------------------------------------------
(* Strings *)

Min(S) == CHOOSE m \in S : \A n \in S : m <= n
Max(S) == CHOOSE m \in S : \A n \in S : m >= n

UpperCase == <<"A", "B", "C", "D", "E", "F", "G", "H", "I", "J", "K", "L", "M",
               "N", "O", "P", "Q", "R", "S", "T", "U", "V", "W", "X", "Y", "Z">>
LowerCase == <<"a", "b", "c", "d", "e", "f", "g", "h", "i", "j", "k", "l", "m",
               "n", "o", "p", "q", "r", "s", "t", "u", "v", "w", "x", "y", "z">>
\* the characters in code point order
CodePoints == <<" ", "-", ".", "/", "0", "1", "2", "3", "4", "5", "6", "7", "8", "9">>
              \o UpperCase \o LowerCase
Whitespace == {" "}

\* str.lower() on one character
LowerChar(ch) ==
    IF \E n \in 1..Len(UpperCase) : UpperCase[n] = ch
    THEN LowerCase[CHOOSE n \in 1..Len(UpperCase) : UpperCase[n] = ch]
    ELSE ch

\* str.lower()
Lower(s) == [n \in 1..Len(s) |-> LowerChar(s[n])]

\* str.split(".")[0]: the part before the first dot, the whole string if none
SplitDotFirst(s) ==
    LET dots == {n \in 1..Len(s) : s[n] = "."}
    IN  IF dots = {} THEN s ELSE SubSeq(s, 1, Min(dots) - 1)

\* str.strip(): leading and trailing whitespace removed
Strip(s) ==
    LET ink == {n \in 1..Len(s) : s[n] \notin Whitespace}
    IN  IF ink = {} THEN <<>> ELSE SubSeq(s, Min(ink), Max(ink))

Ord(ch) == CHOOSE n \in 1..Len(CodePoints) : CodePoints[n] = ch

\* Python's str < str: lexicographic by code point
StrLess(a, b) ==
    LET diff == {n \in 1..Min({Len(a), Len(b)}) : a[n] # b[n]}
    IN  IF diff = {} THEN Len(a) < Len(b)
        ELSE Ord(a[Min(diff)]) < Ord(b[Min(diff)])

\* tuple(sorted((a, b)))
SortedPair(a, b) == IF StrLess(b, a) THEN <<b, a>> ELSE <<a, b>>

\* Python truthiness of an optional string
None == <<"None">>
Truthy(s) == s # None /\ s # <<>>
\* a or b
Or(a, b) == IF Truthy(a) THEN a ELSE b
\* dict.get(key, default)
Get(d, key, default) == IF key \in DOMAIN d THEN d[key] ELSE default

\* Topology._canonicalise with strip() applied before split(): " a .b" -> "a "
canonicalise_strip_first(name) == Lower(SplitDotFirst(Strip(name)))

\* Topology._canonicalise
_canonicalise(name) == Strip(Lower(SplitDotFirst(name)))

----------------------------------------------------------------------------
(* Node, Edge, Topology *)

\* dataclass Node
Node(id, hostname, device_type, model, os_version, mgmt_ip) ==
    [id |-> id, hostname |-> hostname, device_type |-> device_type,
     model |-> model, os_version |-> os_version, mgmt_ip |-> mgmt_ip]

\* dataclass Edge
Edge(source, target, source_intf, target_intf) ==
    [source |-> source, target |-> target,
     source_intf |-> source_intf, target_intf |-> target_intf]

\* Edge.key
EdgeKey(edge) == SortedPair(edge.source, edge.target)

\* Topology(): the three fields as one value
Topology(n, e, s) == [nodes |-> n, edges |-> e, _seen_edges |-> s]
EmptyDict == [x \in {} |-> x]
EmptyTopology == Topology(EmptyDict, <<>>, {})

\* d[key] = value
DictSet(d, key, value) ==
    [x \in DOMAIN d \cup {key} |-> IF x = key THEN value ELSE d[x]]

\* add_node storing under the raw id
add_node_raw_key(topo, node) ==
    IF node.id \notin DOMAIN topo.nodes
    THEN [topo EXCEPT !.nodes = DictSet(topo.nodes, node.id, node)]
    ELSE topo

\* add_node without the membership test: the last record wins
add_node_overwrite(topo, node) ==
    [topo EXCEPT !.nodes = DictSet(topo.nodes, _canonicalise(node.id), node)]

\* Topology.add_node
add_node(topo, node) ==
    LET cid == _canonicalise(node.id)
    IN  IF cid \notin DOMAIN topo.nodes
        THEN [topo EXCEPT !.nodes = DictSet(topo.nodes, cid, node)]
        ELSE topo

\* the Edge add_edge appends
CanonicalEdge(edge) ==
    Edge(_canonicalise(edge.source), _canonicalise(edge.target),
         edge.source_intf, edge.target_intf)

\* add_edge with the key left in call order (not sorted)
add_edge_unsorted_key(topo, edge) ==
    LET key == <<_canonicalise(edge.source), _canonicalise(edge.target)>>
    IN  IF key \in topo._seen_edges THEN topo
        ELSE [topo EXCEPT !._seen_edges = @ \cup {key},
                          !.edges = Append(@, CanonicalEdge(edge))]

\* add_edge deduplicating on Edge.key of the raw names
add_edge_raw_key(topo, edge) ==
    LET key == EdgeKey(edge)
    IN  IF key \in topo._seen_edges THEN topo
        ELSE [topo EXCEPT !._seen_edges = @ \cup {key},
                          !.edges = Append(@, CanonicalEdge(edge))]

\* add_edge storing the sorted key as the endpoints
add_edge_sorted_endpoints(topo, edge) ==
    LET key == SortedPair(_canonicalise(edge.source), _canonicalise(edge.target))
    IN  IF key \in topo._seen_edges THEN topo
        ELSE [topo EXCEPT !._seen_edges = @ \cup {key},
                          !.edges = Append(@, Edge(key[1], key[2],
                                                   edge.source_intf, edge.target_intf))]

\* add_edge without the early return
add_edge_no_dedup(topo, edge) ==
    LET key == SortedPair(_canonicalise(edge.source), _canonicalise(edge.target))
    IN  [topo EXCEPT !._seen_edges = @ \cup {key},
                     !.edges = Append(@, CanonicalEdge(edge))]

\* add_edge appending the Edge as it was passed
add_edge_raw_endpoints(topo, edge) ==
    LET key == SortedPair(_canonicalise(edge.source), _canonicalise(edge.target))
    IN  IF key \in topo._seen_edges THEN topo
        ELSE [topo EXCEPT !._seen_edges = @ \cup {key},
                          !.edges = Append(@, edge)]

\* Topology.add_edge
add_edge(topo, edge) ==
    LET key == SortedPair(_canonicalise(edge.source), _canonicalise(edge.target))
    IN  IF key \in topo._seen_edges THEN topo
        ELSE [topo EXCEPT !._seen_edges = @ \cup {key},
                          !.edges = Append(@, CanonicalEdge(edge))]

----------------------------------------------------------------------------
(* build_topology *)

\* Node(...) of one device_facts record
FactsHostname(facts) == Or(Get(facts, "hostname", None), Get(facts, "host", <<>>))
\* Node(...) of one device_facts record with mgmt_ip taken from the hostname
FactsNode_mgmt_ip_of_hostname(facts) ==
    Node(Or(FactsHostname(facts), Get(facts, "host", <<"u", "n", "k", "n", "o", "w", "n">>)),
         FactsHostname(facts),
         Get(facts, "device_type", ""),
         Get(facts, "model", ""),
         Get(facts, "os_version", ""),
         FactsHostname(facts))

FactsNode(facts) ==
    LET hostname == FactsHostname(facts)
    IN  Node(Or(hostname, Get(facts, "host", <<"u", "n", "k", "n", "o", "w", "n">>)),
             hostname,
             Get(facts, "device_type", ""),
             Get(facts, "model", ""),
             Get(facts, "os_version", ""),
             Get(facts, "host", <<>>))

\* one iteration of the loop over device_facts; st = [topo, h2h]
FactsStep(st, facts) ==
    [topo |-> add_node(st.topo, FactsNode(facts)),
     h2h  |-> DictSet(st.h2h, Get(facts, "host", <<>>), FactsHostname(facts))]

\* local_hostname without the lookup in _host_to_hostname
LocalHostname_no_lookup(nd, h2h) ==
    Or(Get(nd, "hostname", None), Get(nd, "host", <<>>))

\* local_hostname of one neighbor_data record
LocalHostname(nd, h2h) ==
    Or(Get(nd, "hostname", None),
       Get(h2h, Get(nd, "host", <<>>), Get(nd, "host", <<>>)))

\* nd.get("cdp_neighbors", []) + nd.get("lldp_neighbors", [])
Neighbors(nd) == Get(nd, "cdp_neighbors", <<>>) \o Get(nd, "lldp_neighbors", <<>>)

RemoteName(nbr) == Get(nbr, "remote_device", <<>>)

\* Node(...) of one neighbor observation
RemoteNode(nbr) ==
    Node(RemoteName(nbr), RemoteName(nbr), "",
         Get(nbr, "remote_platform", ""),
         Get(nbr, "remote_os_version", ""),
         Get(nbr, "remote_mgmt_ip", <<>>))

\* Edge(...) of one neighbor observation
NeighborEdge(local, nbr) ==
    Edge(local, RemoteName(nbr),
         Get(nbr, "local_interface", ""), Get(nbr, "remote_interface", ""))

\* the observation loop's body skipping an observation whose remote Node exists
NeighborStep_skip_known(topo, local, nbr) ==
    IF ~Truthy(RemoteName(nbr)) THEN topo
    ELSE IF _canonicalise(RemoteName(nbr)) \in DOMAIN topo.nodes THEN topo
    ELSE add_edge(add_node(topo, RemoteNode(nbr)), NeighborEdge(local, nbr))

\* one iteration of the loop over a record's observations
NeighborStep(topo, local, nbr) ==
    IF ~Truthy(RemoteName(nbr)) THEN topo
    ELSE add_edge(add_node(topo, RemoteNode(nbr)), NeighborEdge(local, nbr))

RECURSIVE FactsLoop(_, _)
\* the state after the first n device_facts records
FactsLoop(facts, n) ==
    IF n = 0 THEN [topo |-> EmptyTopology, h2h |-> EmptyDict]
    ELSE FactsStep(FactsLoop(facts, n - 1), facts[n])

RECURSIVE NeighborLoop(_, _, _, _)
\* the Topology after the first n observations of one record
NeighborLoop(topo, local, nbrs, n) ==
    IF n = 0 THEN topo
    ELSE NeighborStep(NeighborLoop(topo, local, nbrs, n - 1), local, nbrs[n])

RECURSIVE ReportLoop(_, _, _)
\* the Topology after the first n neighbor_data records
ReportLoop(st, nds, n) ==
    IF n = 0 THEN st.topo
    ELSE NeighborLoop(ReportLoop(st, nds, n - 1),
                      LocalHostname(nds[n], st.h2h),
                      Neighbors(nds[n]), Len(Neighbors(nds[n])))

\* build_topology as a function of its two arguments
build_topology(facts, nds) ==
    ReportLoop(FactsLoop(facts, Len(facts)), nds, Len(nds))

----------------------------------------------------------------------------
(* Inputs *)

Host1 == <<"1", ".", "1">>
Host2 == <<"1", ".", "2">>

\* device_facts records, as collect_device_info writes them and as a file may hold them
FactsPool ==
    { [host |-> Host1, hostname |-> <<"A", ".", "x">>, device_type |-> "cisco_ios",
       model |-> "m1", os_version |-> "v1"],
      [host |-> Host2, hostname |-> <<"a">>, device_type |-> "arista_eos",
       model |-> "m2", os_version |-> "v2"],
      [host |-> Host1, hostname |-> <<>>, device_type |-> "cisco_ios",
       model |-> "", os_version |-> ""],
      [host |-> Host2, hostname |-> <<>>, device_type |-> "arista_eos",
       model |-> "", os_version |-> ""],
      [host |-> Host1, hostname |-> <<"b">>, device_type |-> "arista_eos",
       model |-> "m2", os_version |-> "v2"],
      [device_type |-> "cisco_ios"] }

\* neighbor observations, as the parsers emit them and as a file may hold them
ObsPool ==
    { [remote_device |-> <<"B", ".", "x">>, remote_mgmt_ip |-> <<"2", ".", "2">>,
       remote_platform |-> "plat", local_interface |-> "Gi0/1",
       remote_interface |-> "Eth1/1"],
      [remote_device |-> <<"a">>, remote_mgmt_ip |-> <<>>,
       remote_platform |-> "", remote_os_version |-> "os",
       local_interface |-> "Eth1/1", remote_interface |-> "Gi0/1"],
      [remote_device |-> <<" ">>, remote_mgmt_ip |-> <<>>,
       remote_platform |-> "", local_interface |-> "Gi0/2",
       remote_interface |-> ""],
      [remote_device |-> <<>>, remote_mgmt_ip |-> <<>>,
       remote_platform |-> "", local_interface |-> "Gi0/3",
       remote_interface |-> ""] }

\* host and hostname of the neighbor_data records
ReportHeads ==
    { [host |-> Host1, hostname |-> <<>>],
      [host |-> Host2, hostname |-> <<"b">>],
      [host |-> Host1, hostname |-> <<"A">>] }

SeqsUpTo(S, n) == UNION {[1..m -> S] : m \in 0..n}

\* one record of a neighbor_data record's weight: itself and its observations
Weight(nd) == 1 + Len(Neighbors(nd))

\* the neighbor_data records of weight at most b
Reports(b) ==
    IF b < 1 THEN {}
    ELSE { r \in { h @@ [cdp_neighbors |-> c, lldp_neighbors |-> l] :
                     h \in ReportHeads, c \in SeqsUpTo(ObsPool, b - 1),
                     l \in SeqsUpTo(ObsPool, b - 1) } : Weight(r) <= b }

RECURSIVE ReportLists(_)
\* the neighbor_data lists of total weight at most b
ReportLists(b) ==
    {<<>>} \cup UNION { { <<r>> \o rest : rest \in ReportLists(b - Weight(r)) } :
                        r \in Reports(b) }

----------------------------------------------------------------------------
(* The collector's variables while no collection runs *)

CollectIdle ==
    /\ inventory = <<>>
    /\ command = "collect"
    /\ results = <<>>
    /\ dev_idx = 0
    /\ cmds = EmptyDict
    /\ parser = ""
    /\ result = EmptyDict
    /\ _connection = None
    /\ live = {}
    /\ step_idx = 0
    /\ sent = <<>>
    /\ parsed = <<>>
    /\ outcome = EmptyDict
    /\ faults = 0
    /\ queries = <<>>

\* The parser variables while no parser function is called
ParseIdle ==
    /\ parser_module = ""
    /\ parser_function = ""
    /\ raw_output = ""
    /\ returned = EmptyDict

----------------------------------------------------------------------------
(* build_topology, step by step *)

Init ==
    /\ nodes = EmptyDict
    /\ edges = <<>>
    /\ _seen_edges = {}
    /\ calls = <<>>
    /\ device_facts \in SeqsUpTo(FactsPool, MaxItems)
    /\ neighbor_data \in ReportLists(MaxItems - Len(device_facts))
    /\ _host_to_hostname = EmptyDict
    /\ local_hostname = <<>>
    /\ facts_idx = 0
    /\ nd_idx = 0
    /\ nbr_idx = 0
    /\ pc = "facts"
    /\ c_in = <<>>
    /\ c_out = <<>>
    /\ CollectIdle
    /\ ParseIdle

CurrentTopology == Topology(nodes, edges, _seen_edges)

SetTopology(topo) ==
    /\ nodes' = topo.nodes
    /\ edges' = topo.edges
    /\ _seen_edges' = topo._seen_edges

\* for facts in device_facts: ...
FactsIter ==
    /\ pc = "facts"
    /\ facts_idx < Len(device_facts)
    /\ LET st == FactsStep([topo |-> CurrentTopology, h2h |-> _host_to_hostname],
                           device_facts[facts_idx + 1])
       IN  /\ SetTopology(st.topo)
           /\ _host_to_hostname' = st.h2h
    /\ facts_idx' = facts_idx + 1
    /\ UNCHANGED <<calls, device_facts, neighbor_data, local_hostname, nd_idx,
                   nbr_idx, pc, c_in, c_out, collectVars, registryVars, parseVars>>

\* the loop over device_facts is exhausted
FactsDone ==
    /\ pc = "facts"
    /\ facts_idx = Len(device_facts)
    /\ pc' = "reports"
    /\ UNCHANGED <<nodes, edges, _seen_edges, calls, device_facts, neighbor_data,
                   _host_to_hostname, local_hostname, facts_idx, nd_idx, nbr_idx,
                   c_in, c_out, collectVars, registryVars, parseVars>>

\* for nd in neighbor_data: local_hostname = ...
ReportIter ==
    /\ pc = "reports"
    /\ nd_idx < Len(neighbor_data)
    /\ local_hostname' = LocalHostname(neighbor_data[nd_idx + 1], _host_to_hostname)
    /\ nd_idx' = nd_idx + 1
    /\ nbr_idx' = 0
    /\ pc' = "nbrs"
    /\ UNCHANGED <<nodes, edges, _seen_edges, calls, device_facts, neighbor_data,
                   _host_to_hostname, facts_idx, c_in, c_out, collectVars, registryVars, parseVars>>

CurrentNeighbors == Neighbors(neighbor_data[nd_idx])

\* for nbr in ...: one observation, skipped or merged
NeighborIter ==
    /\ pc = "nbrs"
    /\ nbr_idx < Len(CurrentNeighbors)
    /\ SetTopology(NeighborStep(CurrentTopology, local_hostname,
                                CurrentNeighbors[nbr_idx + 1]))
    /\ nbr_idx' = nbr_idx + 1
    /\ UNCHANGED <<calls, device_facts, neighbor_data, _host_to_hostname,
                   local_hostname, facts_idx, nd_idx, pc, c_in, c_out, collectVars, registryVars, parseVars>>

\* the loop over the record's observations is exhausted
NeighborsDone ==
    /\ pc = "nbrs"
    /\ nbr_idx = Len(CurrentNeighbors)
    /\ pc' = "reports"
    /\ UNCHANGED <<nodes, edges, _seen_edges, calls, device_facts, neighbor_data,
                   _host_to_hostname, local_hostname, facts_idx, nd_idx, nbr_idx,
                   c_in, c_out, collectVars, registryVars, parseVars>>

\* return topo
Return ==
    /\ pc = "reports"
    /\ nd_idx = Len(neighbor_data)
    /\ pc' = "done"
    /\ UNCHANGED <<nodes, edges, _seen_edges, calls, device_facts, neighbor_data,
                   _host_to_hostname, local_hostname, facts_idx, nd_idx, nbr_idx,
                   c_in, c_out, collectVars, registryVars, parseVars>>

Next ==
    \/ FactsIter
    \/ FactsDone
    \/ ReportIter
    \/ NeighborIter
    \/ NeighborsDone
    \/ Return

Spec == Init /\ [][Next]_vars

----------------------------------------------------------------------------
(* The Topology building API, called in any order *)

ApiNames == { <<"A", ".", "x">>, <<"a">>, <<"b">> }

ApiNodes == { Node(id, id, "", model, "", <<>>) : id \in ApiNames, model \in {"m1", "m2"} }

ApiEdges ==
    { Edge(source, target, intf[1], intf[2]) :
        source \in ApiNames, target \in ApiNames,
        intf \in { <<"Gi0/1", "Eth1/1">>, <<"Eth1/1", "Gi0/1">> } }

InitTopology ==
    /\ nodes = EmptyDict
    /\ edges = <<>>
    /\ _seen_edges = {}
    /\ calls = <<>>
    /\ device_facts = <<>>
    /\ neighbor_data = <<>>
    /\ _host_to_hostname = EmptyDict
    /\ local_hostname = <<>>
    /\ facts_idx = 0
    /\ nd_idx = 0
    /\ nbr_idx = 0
    /\ pc = "api"
    /\ c_in = <<>>
    /\ c_out = <<>>
    /\ CollectIdle
    /\ ParseIdle

\* topo.add_node(node)
AddNodeCall ==
    /\ pc = "api"
    /\ Len(calls) < MaxCalls
    /\ \E node \in ApiNodes :
          /\ SetTopology(add_node(CurrentTopology, node))
          /\ calls' = Append(calls, [op |-> "add_node", arg |-> node])
    /\ UNCHANGED <<buildVars, pc, canonVars, collectVars, registryVars, parseVars>>

\* topo.add_edge(edge)
AddEdgeCall ==
    /\ pc = "api"
    /\ Len(calls) < MaxCalls
    /\ \E edge \in ApiEdges :
          /\ SetTopology(add_edge(CurrentTopology, edge))
          /\ calls' = Append(calls, [op |-> "add_edge", arg |-> edge])
    /\ UNCHANGED <<buildVars, pc, canonVars, collectVars, registryVars, parseVars>>

NextTopology ==
    \/ AddNodeCall
    \/ AddEdgeCall

SpecTopology == InitTopology /\ [][NextTopology]_vars

----------------------------------------------------------------------------
(* _canonicalise applied, and applied again to its result *)

CanonAlphabet == {"a", "A", ".", " "}

InitCanon ==
    /\ nodes = EmptyDict
    /\ edges = <<>>
    /\ _seen_edges = {}
    /\ calls = <<>>
    /\ device_facts = <<>>
    /\ neighbor_data = <<>>
    /\ _host_to_hostname = EmptyDict
    /\ local_hostname = <<>>
    /\ facts_idx = 0
    /\ nd_idx = 0
    /\ nbr_idx = 0
    /\ pc = "canon"
    /\ c_in \in SeqsUpTo(CanonAlphabet, MaxNameLen)
    /\ c_out = <<>>
    /\ CollectIdle
    /\ ParseIdle

\* self._canonicalise(x), x the input first and the previous result after
Canonicalise ==
    /\ pc = "canon"
    /\ Len(c_out) < 2
    /\ c_out' = Append(c_out, _canonicalise(IF c_out = <<>> THEN c_in
                                             ELSE c_out[Len(c_out)]))
    /\ UNCHANGED <<topoVars, calls, buildVars, pc, c_in, collectVars, registryVars, parseVars>>

NextCanon == Canonicalise

SpecCanon == InitCanon /\ [][NextCanon]_vars

----------------------------------------------------------------------------
(* Properties *)

Range(f) == {f[x] : x \in DOMAIN f}

\* the unordered pair of canonicalised endpoints of an Edge
EndpointPair(edge) == {_canonicalise(edge.source), _canonicalise(edge.target)}

EdgeCallIdx == {n \in 1..Len(calls) : calls[n].op = "add_edge"}

\* C1: after any sequence of add_node / add_edge calls on an empty Topology, no
\* two Edges of the edge list have the same unordered pair of canonicalised
\* endpoints.
C1_UniqueEndpointPairs ==
    \A p, q \in 1..Len(edges) :
        p # q => EndpointPair(edges[p]) # EndpointPair(edges[q])

\* two Edges are stored and at least one add_edge call was deduplicated
C1_Witness ==
    /\ pc = "api"
    /\ Len(edges) >= 2
    /\ Cardinality(EdgeCallIdx) > Len(edges)

\* C2: in the Topology build_topology returns, every Edge's source and target
\* is a key of the node mapping.
C2_EdgeEndpointsAreNodes ==
    pc = "done" =>
        \A n \in 1..Len(edges) :
            edges[n].source \in DOMAIN nodes /\ edges[n].target \in DOMAIN nodes

\* a DeviceFacts hostname and an observation's remote_device that canonicalise
\* to the same id
SameDevice(facts, nbr) ==
    /\ Truthy(Get(facts, "hostname", None))
    /\ Truthy(RemoteName(nbr))
    /\ _canonicalise(Get(facts, "hostname", None)) = _canonicalise(RemoteName(nbr))

AllObservations == UNION {Range(Neighbors(neighbor_data[n])) : n \in 1..Len(neighbor_data)}

\* C3: when a DeviceFacts hostname h and an observation's remote_device r
\* canonicalise to the same id, the returned node mapping has exactly one entry
\* for them, and its key is c(h).
C3_OneNodePerDevice ==
    pc = "done" =>
        \A facts \in Range(device_facts), nbr \in AllObservations :
            SameDevice(facts, nbr) =>
                LET cid == _canonicalise(facts.hostname)
                IN  /\ cid \in DOMAIN nodes
                    /\ Cardinality({key \in DOMAIN nodes : _canonicalise(key) = cid}) = 1

\* the build is over and the two names differ as written
C3_Witness ==
    /\ pc = "done"
    /\ \E facts \in Range(device_facts), nbr \in AllObservations :
          SameDevice(facts, nbr) /\ facts.hostname # RemoteName(nbr)

\* the canonical local identity of the n-th neighbor_data record
LocalId(n) == _canonicalise(LocalHostname(neighbor_data[n], _host_to_hostname))

\* record p lists record q's device and record q lists record p's device
Mutual(p, op, q, oq) ==
    /\ Truthy(RemoteName(op))
    /\ Truthy(RemoteName(oq))
    /\ _canonicalise(RemoteName(op)) = LocalId(q)
    /\ _canonicalise(RemoteName(oq)) = LocalId(p)

\* C4: when A's record lists B and B's record lists A, in the CDP or the LLDP
\* list of either, the returned Topology has exactly one Edge between A and B.
C4_OneEdgePerMutualReport ==
    pc = "done" =>
        \A p, q \in 1..Len(neighbor_data) :
            \A op \in Range(Neighbors(neighbor_data[p])),
               oq \in Range(Neighbors(neighbor_data[q])) :
                Mutual(p, op, q, oq) =>
                    Cardinality({n \in 1..Len(edges) :
                        EndpointPair(edges[n]) = {LocalId(p), LocalId(q)}}) = 1

\* A lists B by CDP, B lists A by LLDP, A and B are different devices
C4_Witness ==
    /\ pc = "done"
    /\ \E p, q \in 1..Len(neighbor_data) :
          /\ LocalId(p) # LocalId(q)
          /\ \E op \in Range(Get(neighbor_data[p], "cdp_neighbors", <<>>)),
                oq \in Range(Get(neighbor_data[q], "lldp_neighbors", <<>>)) :
                Mutual(p, op, q, oq)

\* e2 is e1 seen from the other end
Mirror(e1, e2) ==
    /\ e2.source = e1.target
    /\ e2.target = e1.source
    /\ e2.source_intf = e1.target_intf
    /\ e2.target_intf = e1.source_intf

\* the p-th call is add_edge and no earlier add_edge call was for the same pair
FirstForPair(p) ==
    /\ p \in EdgeCallIdx
    /\ \A n \in EdgeCallIdx :
          n < p => EndpointPair(calls[n].arg) # EndpointPair(calls[p].arg)

\* C5: when Edge (A,B,ia,ib) and its mirror (B,A,ib,ia) are added, whichever
\* comes first, the edge list holds exactly one Edge for the pair {A,B}: the
\* one added first, with its direction and its interface labels (its endpoints
\* canonicalised).
C5_MirrorKeepsFirst ==
    \A p, q \in EdgeCallIdx :
        (p < q /\ FirstForPair(p) /\ Mirror(calls[p].arg, calls[q].arg)) =>
            LET first == calls[p].arg
                hits == {n \in 1..Len(edges) :
                            EndpointPair(edges[n]) = EndpointPair(first)}
            IN  /\ Cardinality(hits) = 1
                /\ \A n \in hits :
                      /\ edges[n].source = _canonicalise(first.source)
                      /\ edges[n].target = _canonicalise(first.target)
                      /\ edges[n].source_intf = first.source_intf
                      /\ edges[n].target_intf = first.target_intf

\* an Edge and then its mirror were added, the first one sorting after the second
C5_Witness ==
    /\ pc = "api"
    /\ \E p, q \in EdgeCallIdx :
          /\ p < q
          /\ FirstForPair(p)
          /\ Mirror(calls[p].arg, calls[q].arg)
          /\ StrLess(_canonicalise(calls[p].arg.target),
                     _canonicalise(calls[p].arg.source))

\* C6: build_topology(facts, nbrs + nbrs) has the node mapping and the edge
\* sequence of build_topology(facts, nbrs).
C6_DuplicatedNeighborInput ==
    pc = "done" =>
        LET twice == build_topology(device_facts, neighbor_data \o neighbor_data)
        IN  twice.nodes = nodes /\ twice.edges = edges

\* the build is over and the neighbor input contributed a Node and an Edge
C6_Witness ==
    /\ pc = "done"
    /\ Len(neighbor_data) >= 1
    /\ Len(edges) >= 1
    /\ device_facts # <<>>

FactsId(n) == _canonicalise(FactsNode(device_facts[n]).id)

\* C7: when two DeviceFacts records canonicalise to the same id and differ in
\* model or os_version, the returned Node has the model, os_version, device_type
\* and mgmt_ip of the first record of the input with that id.
C7_FirstFactsWin ==
    pc = "done" =>
        \A p, q \in 1..Len(device_facts) :
            ( /\ p < q
              /\ FactsId(p) = FactsId(q)
              /\ \/ Get(device_facts[p], "model", "") # Get(device_facts[q], "model", "")
                 \/ Get(device_facts[p], "os_version", "")
                        # Get(device_facts[q], "os_version", "") ) =>
                LET first == device_facts[Min({n \in 1..p : FactsId(n) = FactsId(p)})]
                    node  == nodes[FactsId(p)]
                IN  /\ node.model = Get(first, "model", "")
                    /\ node.os_version = Get(first, "os_version", "")
                    /\ node.device_type = Get(first, "device_type", "")
                    /\ node.mgmt_ip = Get(first, "host", <<>>)

\* the build is over and two records of one id differ in model
C7_Witness ==
    /\ pc = "done"
    /\ \E p, q \in 1..Len(device_facts) :
          /\ p < q
          /\ FactsId(p) = FactsId(q)
          /\ Get(device_facts[p], "model", "") # Get(device_facts[q], "model", "")

\* C8: _canonicalise(_canonicalise(x)) = _canonicalise(x) for every string x.
C8_CanonicaliseIdempotent ==
    Len(c_out) = 2 => c_out[2] = c_out[1]

\* both applications are done on a string with leading whitespace, a dot and
\* an upper-case letter
C8_Witness ==
    /\ Len(c_out) = 2
    /\ Len(c_in) >= 1
    /\ c_in[1] = " "
    /\ "." \in Range(c_in)
    /\ "A" \in Range(c_in)
    /\ c_out[1] # <<>>

\* C9: every Node of the node mapping has as its id the key it is stored under.
C9_NodeIdIsKey ==
    \A key \in DOMAIN nodes : nodes[key].id = key

\* C10: an observation whose remote_device canonicalises to the empty string
\* is skipped: iterating it adds no Node and no Edge.
C10_EmptyRemoteSkipped ==
    [][ ( /\ pc = "nbrs"
          /\ nbr_idx < Len(CurrentNeighbors)
          /\ _canonicalise(RemoteName(CurrentNeighbors[nbr_idx + 1])) = <<>> )
        => (nodes' = nodes /\ edges' = edges) ]_vars

\* the orderings of a sequence
Orderings(s) ==
    { [n \in 1..Len(s) |-> s[p[n]]] :
        p \in {f \in [1..Len(s) -> 1..Len(s)] : \A a, b \in 1..Len(s) : a # b => f[a] # f[b]} }

\* one neighbor_data record with its CDP list and its LLDP list reordered
ReorderedRecord(nd) ==
    { [nd EXCEPT !.cdp_neighbors = c, !.lldp_neighbors = l] :
        c \in Orderings(nd.cdp_neighbors), l \in Orderings(nd.lldp_neighbors) }

RECURSIVE ReorderedInside(_)
\* a neighbor_data list with the observations inside each record reordered
ReorderedInside(nds) ==
    IF nds = <<>> THEN {<<>>}
    ELSE { <<nd>> \o rest : nd \in ReorderedRecord(Head(nds)),
                             rest \in ReorderedInside(Tail(nds)) }

\* every permutation of the records and of the observations inside each
InputPermutations(nds) == UNION { ReorderedInside(o) : o \in Orderings(nds) }

NodeIds(topo) == DOMAIN topo.nodes
EndpointPairs(topo) == { EndpointPair(e) : e \in Range(topo.edges) }

\* C11: with device_facts fixed, build_topology returns the same set of node
\* ids and the same set of unordered endpoint pairs for every permutation of
\* the neighbor_data list and of the observations inside each record.
C11_OrderIndependentSets ==
    pc = "done" =>
        \A nds \in InputPermutations(neighbor_data) :
            LET topo == build_topology(device_facts, nds)
            IN  /\ NodeIds(topo) = NodeIds(CurrentTopology)
                /\ EndpointPairs(topo) = EndpointPairs(CurrentTopology)

\* the build is over on two records with an Edge each, and another order of
\* the records gives another edge sequence
C11_Witness ==
    /\ pc = "done"
    /\ Len(neighbor_data) >= 2
    /\ Len(edges) >= 2
    /\ \E nds \in InputPermutations(neighbor_data) :
          build_topology(device_facts, nds).edges # edges

----------------------------------------------------------------------------
(* platforms.py: the platform registry *)

_PARSER_MAP ==
    [cisco_ios        |-> "ndg.parsers.cisco_ios",
     cisco_xe         |-> "ndg.parsers.cisco_ios",
     cisco_ios_telnet |-> "ndg.parsers.cisco_ios",
     cisco_nxos       |-> "ndg.parsers.cisco_nxos",
     cisco_nxos_ssh   |-> "ndg.parsers.cisco_nxos",
     arista_eos       |-> "ndg.parsers.arista_eos",
     paloalto_panos   |-> "ndg.parsers.paloalto_panos",
     juniper_junos    |-> "ndg.parsers.juniper_junos",
     juniper          |-> "ndg.parsers.juniper_junos",
     fortinet         |-> "ndg.parsers.fortinet_fortios",
     fortinet_ssh     |-> "ndg.parsers.fortinet_fortios",
     sonic_ssh        |-> "ndg.parsers.sonic",
     linux            |-> "ndg.parsers.sonic",
     extreme_exos     |-> "ndg.parsers.extreme_exos",
     extreme          |-> "ndg.parsers.extreme_exos",
     extreme_nos      |-> "ndg.parsers.extreme_exos"]

CommandSet(version, interfaces, cdp, lldp) ==
    [version |-> version, interfaces |-> interfaces,
     cdp_neighbors |-> cdp, lldp_neighbors |-> lldp]

_COMMAND_MAP ==
    [cisco_ios      |-> CommandSet("show version", "show ip interface brief",
                                   "show cdp neighbors detail", "show lldp neighbors detail"),
     cisco_xe       |-> CommandSet("show version", "show ip interface brief",
                                   "show cdp neighbors detail", "show lldp neighbors detail"),
     cisco_nxos     |-> CommandSet("show version", "show ip interface brief vrf all",
                                   "show cdp neighbors detail", "show lldp neighbors detail"),
     arista_eos     |-> CommandSet("show version", "show ip interface brief",
                                   "show cdp neighbors detail", "show lldp neighbors detail"),
     paloalto_panos |-> CommandSet("show system info", "show interface all",
                                   "", "show lldp neighbors all"),
     juniper_junos  |-> CommandSet("show version", "show interfaces terse",
                                   "", "show lldp neighbors"),
     fortinet       |-> CommandSet("get system status", "get system interface physical",
                                   "", "execute lldp info remote-device"),
     sonic_ssh      |-> CommandSet("show version", "show ip interface",
                                   "", "show lldp neighbors"),
     extreme_exos   |-> CommandSet("show version", "show ipconfig",
                                   "show cdp neighbors detail", "show lldp neighbors detailed")]

\* A call that returned value, and a call that raised ValueError with the
\* list of supported types in its message.
Returned(value) == [raised |-> FALSE, value |-> value]
Unsupported(supported) == [raised |-> TRUE, supported |-> supported]

get_parser(device_type) ==
    IF device_type \in DOMAIN _PARSER_MAP /\ _PARSER_MAP[device_type] # ""
    THEN Returned(_PARSER_MAP[device_type])
    ELSE Unsupported(DOMAIN _PARSER_MAP)

\* The alias normalisation of get_commands, its six tests in order.
Alias(key, names, target) == IF key \in names THEN target ELSE key

NormaliseKey_no_extreme_nos(device_type) ==
    Alias(Alias(Alias(Alias(Alias(Alias(device_type,
        {"cisco_ios_telnet"}, "cisco_ios"),
        {"cisco_nxos_ssh"}, "cisco_nxos"),
        {"juniper"}, "juniper_junos"),
        {"fortinet_ssh"}, "fortinet"),
        {"linux"}, "sonic_ssh"),
        {"extreme"}, "extreme_exos")

NormaliseKey(device_type) ==
    Alias(Alias(Alias(Alias(Alias(Alias(device_type,
        {"cisco_ios_telnet"}, "cisco_ios"),
        {"cisco_nxos_ssh"}, "cisco_nxos"),
        {"juniper"}, "juniper_junos"),
        {"fortinet_ssh"}, "fortinet"),
        {"linux"}, "sonic_ssh"),
        {"extreme", "extreme_nos"}, "extreme_exos")

get_commands(device_type) ==
    LET key == NormaliseKey(device_type) IN
    IF key \in DOMAIN _COMMAND_MAP /\ DOMAIN _COMMAND_MAP[key] # {}
    THEN Returned(_COMMAND_MAP[key])
    ELSE Unsupported(DOMAIN _COMMAND_MAP)

----------------------------------------------------------------------------
(* connector.py: SSHConnector.  self is the pair of the object's _connection
   field and the set of hosts whose SSH connection is established. *)

Connector(connection, established) == [_connection |-> connection, live |-> established]

\* What ConnectHandler and enable() can do for these credentials:
\* "ok", ConnectHandler raises ("connect_fail"), or ConnectHandler returns
\* and enable() raises ("enable_fail", only tried when a secret is set).
ConnectOutcomes(credentials) ==
    {"ok", "connect_fail"} \cup (IF credentials.secret # "" THEN {"enable_fail"} ELSE {})

connect(self, credentials, how) ==
    IF how = "connect_fail"
    THEN [self |-> self, raised |-> TRUE]
    ELSE [self |-> Connector(credentials.host, self.live \cup {credentials.host}),
          raised |-> how = "enable_fail"]

disconnect(self) ==
    IF self._connection # None
    THEN Connector(None, self.live \ {self._connection})
    ELSE self

\* send raises RuntimeError before issuing anything when not connected.
send(self, cmd, log) ==
    IF self._connection = None
    THEN [sent |-> log, raised |-> TRUE]
    ELSE [sent |-> Append(log, cmd), raised |-> FALSE]

\* send_config raises RuntimeError before issuing anything when not connected.
send_config(self, commands, log) ==
    IF self._connection = None
    THEN [sent |-> log, raised |-> TRUE]
    ELSE [sent |-> log \o commands, raised |-> FALSE]

\* The context manager: __enter__ is connect, __exit__ is disconnect.
__enter__(self, credentials, how) == connect(self, credentials, how)
__exit__(self) == disconnect(self)

----------------------------------------------------------------------------
(* collector.py: collect_device_info and collect_neighbors *)

MaxDevices == 2
MaxFaults == 3

HostOf(n) == <<"1", ".", CodePoints[n + 3]>>

CredPool ==
    { [device_type |-> "cisco_ios", secret |-> "enable"],
      [device_type |-> "juniper",   secret |-> ""],
      [device_type |-> "cisco_asa", secret |-> ""] }

Credentials(n, c) == [host |-> HostOf(n), device_type |-> c.device_type, secret |-> c.secret]

Inventories ==
    UNION { { [n \in 1..len |-> Credentials(n, f[n])] : f \in [1..len -> CredPool] }
            : len \in 0..MaxDevices }

Steps(cmd) ==
    IF cmd = "collect" THEN <<"version", "interfaces">>
    ELSE <<"version", "cdp", "lldp">>

CommandKey(step) ==
    CASE step = "version"    -> "version"
      [] step = "interfaces" -> "interfaces"
      [] step = "cdp"        -> "cdp_neighbors"
      [] step = "lldp"       -> "lldp_neighbors"

ParserFunction(step) ==
    CASE step = "version"    -> "parse_version"
      [] step = "interfaces" -> "parse_interfaces"
      [] step = "cdp"        -> "parse_cdp_neighbors_detail"
      [] step = "lldp"       -> "parse_lldp_neighbors_detail"

\* The record the function starts from.
InitialResult(cmd, credentials) ==
    IF cmd = "collect"
    THEN [host |-> credentials.host, device_type |-> credentials.device_type,
          hostname |-> <<>>,
          model |-> <<>>, os_version |-> <<>>, interfaces |-> <<>>,
          collected_at |-> "now", errors |-> <<>>]
    ELSE [host |-> credentials.host, device_type |-> credentials.device_type,
          hostname |-> <<>>,
          cdp_neighbors |-> <<>>, lldp_neighbors |-> <<>>,
          collected_at |-> "now", errors |-> <<>>]

\* What a parser that did not raise returned for the device's output.
ParsedValue(step, host) ==
    CASE step = "version"    -> [hostname |-> <<"r", host[Len(host)]>>,
                                 model |-> <<"m">>, os_version |-> <<"v">>]
      [] step = "interfaces" -> << [interface |-> <<"e", "0">>] >>
      [] step = "cdp"        -> << [remote_device |-> <<"c">>, protocol |-> <<"c", "d", "p">>] >>
      [] step = "lldp"       -> << [remote_device |-> <<"l">>, protocol |-> <<"l", "l", "d", "p">>] >>

StoreResult(cmd, step, res, value) ==
    CASE step = "version" /\ cmd = "collect" ->
             [res EXCEPT !.hostname = value.hostname, !.model = value.model,
                         !.os_version = value.os_version]
      [] step = "version" /\ cmd # "collect" ->
             [res EXCEPT !.hostname = Get(value, "hostname", <<>>)]
      [] step = "interfaces" -> [res EXCEPT !.interfaces = value]
      [] step = "cdp"        -> [res EXCEPT !.cdp_neighbors = value]
      [] step = "lldp"       -> [res EXCEPT !.lldp_neighbors = value]

ErrorEntry(key, exc) == [key |-> key, exc |-> exc]

\* The except clause of a step: collect_neighbors' version step has "pass".
RecordError(cmd, step, res, exc) ==
    IF cmd # "collect" /\ step = "version" THEN res
    ELSE [res EXCEPT !.errors = Append(@, ErrorEntry(step, exc))]

\* The outer except clause.
ConnectionFailed_pass(res, exc) == res

ConnectionFailed(res, exc) ==
    [res EXCEPT !.errors = Append(@, ErrorEntry("connection", exc))]

\* The `if cdp_cmd:` / `if lldp_cmd:` tests of collect_neighbors.
Skips_never(cmd, step, text) == FALSE

Skips(cmd, step, text) == cmd # "collect" /\ step \in {"cdp", "lldp"} /\ text = ""

\* Where control goes after a step: each step has its own try, so the next
\* step follows whatever happened.
NextStepIdx_abort(cmd, idx, how) ==
    IF how \in {"send_fail", "parse_fail"} THEN Len(Steps(cmd)) ELSE idx + 1

\* a step whose send failed is tried again
NextStepIdx_retry(cmd, idx, how) == IF how = "send_fail" THEN idx ELSE idx + 1

NextStepIdx(cmd, idx, how) == idx + 1

----------------------------------------------------------------------------
(* cli.py: the batch loop of _cmd_collect / _cmd_neighbors around the
   collector, step by step *)

InitCollect ==
    /\ nodes = EmptyDict
    /\ edges = <<>>
    /\ _seen_edges = {}
    /\ calls = <<>>
    /\ device_facts = <<>>
    /\ neighbor_data = <<>>
    /\ _host_to_hostname = EmptyDict
    /\ local_hostname = None
    /\ facts_idx = 0
    /\ nd_idx = 0
    /\ nbr_idx = 0
    /\ c_in = <<>>
    /\ c_out = <<>>
    /\ pc = "batch"
    /\ inventory \in Inventories
    /\ command \in {"collect", "neighbors"}
    /\ results = <<>>
    /\ dev_idx = 0
    /\ cmds = EmptyDict
    /\ parser = ""
    /\ result = EmptyDict
    /\ _connection = None
    /\ live = {}
    /\ step_idx = 0
    /\ sent = <<>>
    /\ parsed = <<>>
    /\ outcome = EmptyDict
    /\ faults = 0
    /\ queries = <<>>
    /\ ParseIdle

otherVars == <<topoVars, calls, buildVars, canonVars, registryVars, parseVars>>

creds == inventory[dev_idx]

\* for creds in creds_list: the call of collect_* begins with fresh locals.
BatchIter ==
    /\ pc = "batch"
    /\ dev_idx < Len(inventory)
    /\ dev_idx' = dev_idx + 1
    /\ cmds' = EmptyDict
    /\ parser' = ""
    /\ result' = EmptyDict
    /\ _connection' = None
    /\ step_idx' = 0
    /\ sent' = <<>>
    /\ parsed' = <<>>
    /\ outcome' = EmptyDict
    /\ pc' = "lookup"
    /\ UNCHANGED <<otherVars, inventory, command, results, live, faults>>

\* get_commands and get_parser, before any try: the record is initialised
\* only when both returned.
LookupReturns ==
    /\ pc = "lookup"
    /\ ~get_commands(creds.device_type).raised
    /\ ~get_parser(creds.device_type).raised
    /\ cmds' = get_commands(creds.device_type).value
    /\ parser' = get_parser(creds.device_type).value
    /\ result' = InitialResult(command, creds)
    /\ pc' = "enter"
    /\ UNCHANGED <<otherVars, inventory, command, results, dev_idx, _connection,
                   live, step_idx, sent, parsed, outcome, faults>>

\* The ValueError of a lookup leaves collect_* and the for loop, which has
\* no handler: the command ends without saving.
LookupRaises ==
    /\ pc = "lookup"
    /\ get_commands(creds.device_type).raised \/ get_parser(creds.device_type).raised
    /\ pc' = "aborted"
    /\ UNCHANGED <<otherVars, collectVars>>

\* with SSHConnector(credentials) as ssh: __enter__ inside the outer try.
Enter(how) ==
    /\ pc = "enter"
    /\ how \in ConnectOutcomes(creds)
    /\ how # "ok" => faults < MaxFaults
    /\ LET r == __enter__(Connector(_connection, live), creds, how) IN
        /\ _connection' = r.self._connection
        /\ live' = r.self.live
        /\ result' = IF r.raised THEN ConnectionFailed(result, how) ELSE result
        /\ pc' = IF r.raised THEN "return" ELSE "steps"
    /\ outcome' = DictSet(outcome, "connect", how)
    /\ faults' = IF how # "ok" THEN faults + 1 ELSE faults
    /\ UNCHANGED <<otherVars, inventory, command, results, dev_idx, cmds, parser,
                   step_idx, sent, parsed>>

EnterOk == Enter("ok")
EnterConnectFails == Enter("connect_fail")
EnterEnableFails == Enter("enable_fail")

\* One probe step with its own try.
ProbeStep(how) ==
    /\ pc = "steps"
    /\ LET step == Steps(command)[step_idx + 1]
           text == cmds[CommandKey(step)]
           tx == send(Connector(_connection, live), text, sent)
       IN
        /\ (how = "skipped") <=> Skips(command, step, text)
        /\ how \in {"send_fail", "parse_fail"} => faults < MaxFaults
        /\ sent' = IF how = "skipped" THEN sent ELSE tx.sent
        /\ parsed' = IF how \in {"ok", "parse_fail"} /\ ~tx.raised
                     THEN Append(parsed, [module |-> parser, function |-> ParserFunction(step)])
                     ELSE parsed
        /\ result' = CASE how = "skipped" -> result
                       [] tx.raised -> RecordError(command, step, result, "send_fail")
                       [] how = "ok" ->
                              StoreResult(command, step, result, ParsedValue(step, creds.host))
                       [] OTHER -> RecordError(command, step, result, how)
        /\ outcome' = DictSet(outcome, step,
                              IF how # "skipped" /\ tx.raised THEN "send_fail" ELSE how)
        /\ step_idx' = NextStepIdx(command, step_idx, how)
        /\ pc' = IF step_idx' = Len(Steps(command)) THEN "exit" ELSE "steps"
    /\ faults' = IF how \in {"send_fail", "parse_fail"} THEN faults + 1 ELSE faults
    /\ UNCHANGED <<otherVars, inventory, command, results, dev_idx, cmds, parser,
                   _connection, live>>

ProbeOk == ProbeStep("ok")
ProbeSkipped == ProbeStep("skipped")
ProbeSendFails == ProbeStep("send_fail")
ProbeParseFails == ProbeStep("parse_fail")

\* The end of the with block: __exit__.
Exit ==
    /\ pc = "exit"
    /\ LET self == __exit__(Connector(_connection, live)) IN
        /\ _connection' = self._connection
        /\ live' = self.live
    /\ pc' = "return"
    /\ UNCHANGED <<otherVars, inventory, command, results, dev_idx, cmds, parser,
                   result, step_idx, sent, parsed, outcome, faults>>

\* return result; results.append(...) in the loop.
ReturnResult ==
    /\ pc = "return"
    /\ results' = Append(results, result)
    /\ pc' = "batch"
    /\ UNCHANGED <<otherVars, inventory, command, dev_idx, cmds, parser, result,
                   _connection, live, step_idx, sent, parsed, outcome, faults>>

\* The loop is over: save_json(results, ...).
BatchDone ==
    /\ pc = "batch"
    /\ dev_idx = Len(inventory)
    /\ pc' = "saved"
    /\ UNCHANGED <<otherVars, collectVars>>

NextCollect ==
    \/ BatchIter
    \/ LookupReturns
    \/ LookupRaises
    \/ EnterOk
    \/ EnterConnectFails
    \/ EnterEnableFails
    \/ ProbeOk
    \/ ProbeSkipped
    \/ ProbeSendFails
    \/ ProbeParseFails
    \/ Exit
    \/ ReturnResult
    \/ BatchDone

SpecCollect == InitCollect /\ [][NextCollect]_vars

----------------------------------------------------------------------------
(* Properties of the collector *)

Failed == {"send_fail", "parse_fail"}
SessionOpened == "connect" \in DOMAIN outcome /\ outcome["connect"] = "ok"
SessionFailed == "connect" \in DOMAIN outcome /\ outcome["connect"] # "ok"
ErrorKeys(res) == { res.errors[i].key : i \in 1..Len(res.errors) }

\* C12: a batch over N devices ends with N result records, one per device in
\* inventory order, whatever fails for a device.
C12_BatchYieldsAllRecords ==
    pc \in {"saved", "aborted"} =>
        /\ Len(results) = Len(inventory)
        /\ \A n \in 1..Len(results) : results[n].host = inventory[n].host

\* What the record holds for a step whose parser returned.
Stored(cmd, step, res, value) ==
    CASE step = "version" /\ cmd = "collect" ->
             /\ res.hostname = value.hostname
             /\ res.model = value.model
             /\ res.os_version = value.os_version
      [] step = "version" /\ cmd # "collect" -> res.hostname = value.hostname
      [] step = "interfaces" -> res.interfaces = value
      [] step = "cdp"        -> res.cdp_neighbors = value
      [] step = "lldp"       -> res.lldp_neighbors = value

\* C13: once the session is open, every step of the call is attempted
\* whatever happened to the steps before it (its command is issued unless
\* the platform has none), and the value of every step that succeeded is in
\* the returned record.
C13_LaterStepsStillRun ==
    (pc = "return" /\ SessionOpened) =>
        \A n \in 1..Len(Steps(command)) :
            LET step == Steps(command)[n] IN
            /\ step \in DOMAIN outcome
            /\ outcome[step] # "skipped" => cmds[CommandKey(step)] \in Range(sent)
            /\ outcome[step] = "ok" =>
                   Stored(command, step, result, ParsedValue(step, creds.host))

C13_Witness ==
    /\ pc = "return"
    /\ SessionOpened
    /\ command = "neighbors"
    /\ outcome["version"] = "send_fail"
    /\ outcome["cdp"] = "parse_fail"
    /\ outcome["lldp"] = "ok"
    /\ result.lldp_neighbors # <<>>

\* C14: every step whose send or parse failed has an entry keyed by its name
\* in the errors of the returned record.
C14_FailedStepRecorded ==
    pc = "return" =>
        \A step \in DOMAIN outcome \ {"connect"} :
            outcome[step] \in Failed => step \in ErrorKeys(result)

\* C15: when the session could not be opened, no command was issued, no
\* parser was invoked, and the returned record has the device's host, empty
\* facts and lists, and the single error "connection".
C15_ConnectionFailureRecord ==
    (pc = "return" /\ SessionFailed) =>
        /\ sent = <<>>
        /\ parsed = <<>>
        /\ result.host = creds.host
        /\ result.hostname = <<>>
        /\ command = "collect" =>
               /\ result.model = <<>>
               /\ result.os_version = <<>>
               /\ result.interfaces = <<>>
        /\ command # "collect" =>
               /\ result.cdp_neighbors = <<>>
               /\ result.lldp_neighbors = <<>>
        /\ Len(result.errors) = 1
        /\ result.errors[1].key = "connection"

C15_Witness ==
    /\ pc = "return"
    /\ dev_idx = 2
    /\ outcome["connect"] = "enable_fail"
    /\ Len(results) = 1
    /\ results[1].errors = <<>>

\* C16: when collect_device_info or collect_neighbors has returned or raised,
\* no connection that was established for the device is still open.
C16_SessionReleased ==
    (pc \in {"return", "aborted"}) => creds.host \notin live

----------------------------------------------------------------------------
(* The registry queried with any tags, in any order *)

MaxQueries == 2

Tags ==
    DOMAIN _PARSER_MAP \cup DOMAIN _COMMAND_MAP
        \cup {"autodetect", "cisco_asa", "CISCO_IOS", "cisco_ios ", "junos", ""}

InitRegistry ==
    /\ nodes = EmptyDict
    /\ edges = <<>>
    /\ _seen_edges = {}
    /\ calls = <<>>
    /\ device_facts = <<>>
    /\ neighbor_data = <<>>
    /\ _host_to_hostname = EmptyDict
    /\ local_hostname = None
    /\ facts_idx = 0
    /\ nd_idx = 0
    /\ nbr_idx = 0
    /\ c_in = <<>>
    /\ c_out = <<>>
    /\ pc = "registry"
    /\ CollectIdle
    /\ ParseIdle

Query(device_type) ==
    /\ pc = "registry"
    /\ Len(queries) < MaxQueries
    /\ queries' = Append(queries, [device_type |-> device_type,
                                   commands |-> get_commands(device_type),
                                   parser |-> get_parser(device_type)])
    /\ UNCHANGED <<topoVars, calls, buildVars, pc, canonVars, collectVars, parseVars>>

NextRegistry == \E device_type \in Tags : Query(device_type)

SpecRegistry == InitRegistry /\ [][NextRegistry]_vars

\* The tags the tables name: supported types and their aliases.
KnownTags == DOMAIN _PARSER_MAP \cup DOMAIN _COMMAND_MAP
CommandNames == {"version", "interfaces", "cdp_neighbors", "lldp_neighbors"}

\* C17: for a supported type or alias get_commands returns a command set with
\* exactly the entries version, interfaces, cdp_neighbors, lldp_neighbors and
\* get_parser returns a parser; for any other tag both raise an error that
\* lists supported types; never does one succeed and the other fail.
C17_RegistryConsistent ==
    \A n \in 1..Len(queries) :
        LET q == queries[n] IN
        /\ q.commands.raised <=> q.parser.raised
        /\ q.device_type \in KnownTags =>
               /\ ~q.commands.raised
               /\ DOMAIN q.commands.value = CommandNames
               /\ ~q.parser.raised
               /\ q.parser.value # ""
        /\ q.device_type \notin KnownTags =>
               /\ q.commands.raised
               /\ q.parser.raised
               /\ q.commands.supported # {} /\ q.commands.supported \subseteq KnownTags
               /\ q.parser.supported # {} /\ q.parser.supported \subseteq KnownTags

C17_Witness ==
    /\ Len(queries) = 2
    /\ queries[1].device_type = "extreme_nos"
    /\ ~queries[1].commands.raised
    /\ queries[2].device_type = "junos"
    /\ queries[2].parser.raised

----------------------------------------------------------------------------
(* Python's re on output texts.  A text is a string; a pattern is a sequence
   of items, matched with re's backtracking order (greedy or lazy
   repetition, alternatives left to right). *)

Chars(s) == [n \in 1..Len(s) |-> SubSeq(s, n, n)]
At(s, n) == SubSeq(s, n, n)

Space == {" ", "\t", "\n", "\r"}
Digit == {"0", "1", "2", "3", "4", "5", "6", "7", "8", "9"}
Letter == Range(UpperCase) \cup Range(LowerCase)
Word == Letter \cup Digit \cup {"_"}

UpperChar(ch) ==
    IF \E n \in 1..Len(LowerCase) : LowerCase[n] = ch
    THEN UpperCase[CHOOSE n \in 1..Len(LowerCase) : LowerCase[n] = ch]
    ELSE ch

\* flags
Flags(ignorecase, multiline, dotall) ==
    [ignorecase |-> ignorecase, multiline |-> multiline, dotall |-> dotall]
NoFlags == Flags(FALSE, FALSE, FALSE)
IGNORECASE == Flags(TRUE, FALSE, FALSE)
MULTILINE == Flags(FALSE, TRUE, FALSE)
DOTALL == Flags(FALSE, FALSE, TRUE)

\* items of a pattern; most is <<>> for no upper limit, <<n>> for n
Lit(s) == [t |-> "lit", s |-> s]
In(chars) == [chars |-> chars, neg |-> FALSE, dot |-> FALSE]
NotIn(chars) == [chars |-> chars, neg |-> TRUE, dot |-> FALSE]
Dot == [chars |-> {"\n"}, neg |-> TRUE, dot |-> TRUE]
Repeat(cls, least, most, lazy) ==
    [t |-> "rep", cls |-> cls, least |-> least, most |-> most, lazy |-> lazy]
One(cls) == Repeat(cls, 1, <<1>>, FALSE)
Opt(cls) == Repeat(cls, 0, <<1>>, FALSE)
Star(cls) == Repeat(cls, 0, <<>>, FALSE)
Plus(cls) == Repeat(cls, 1, <<>>, FALSE)
AtLeast(cls, n) == Repeat(cls, n, <<>>, FALSE)
LazyStar(cls) == Repeat(cls, 0, <<>>, TRUE)
LazyPlus(cls) == Repeat(cls, 1, <<>>, TRUE)
Group(items) == [t |-> "group", items |-> items]
Alt(alts) == [t |-> "alt", alts |-> alts]
Lookahead(items) == [t |-> "lookahead", items |-> items]
Bol == [t |-> "bol"]
Eol == [t |-> "eol"]
EndZ == [t |-> "endz"]
Captured(from) == [t |-> "captured", from |-> from]

InClass(ch, cls, fl) ==
    IF cls.dot /\ fl.dotall THEN TRUE
    ELSE cls.neg # (\/ ch \in cls.chars
                    \/ fl.ignorecase /\ (LowerChar(ch) \in cls.chars \/ UpperChar(ch) \in cls.chars))

LitAt(text, pos, s, fl) ==
    /\ pos + Len(s) - 1 <= Len(text)
    /\ IF fl.ignorecase
       THEN Lower(Chars(SubSeq(text, pos, pos + Len(s) - 1))) = Lower(Chars(s))
       ELSE SubSeq(text, pos, pos + Len(s) - 1) = s

\* the least position of a set, or the one given when there is none
FirstOr(positions, none) == IF positions = {} THEN none ELSE Min(positions)

\* a repetition takes at most `most` characters
AtMost(len, most) == IF most # <<>> /\ len > most[1] THEN most[1] ELSE len

\* the length of the run of characters of the class at pos, at most `most`
Run(text, pos, cls, most, fl) ==
    AtMost(FirstOr({n \in pos..Len(text) : ~InClass(At(text, n), cls, fl)}, Len(text) + 1) - pos,
           most)

AtBol(text, pos, fl) == pos = 1 \/ (fl.multiline /\ At(text, pos - 1) = "\n")
AtEol(text, pos, fl) ==
    \/ pos = Len(text) + 1
    \/ pos = Len(text) /\ At(text, pos) = "\n"
    \/ fl.multiline /\ pos <= Len(text) /\ At(text, pos) = "\n"

Failure == [ok |-> FALSE]
Success(end, groups) == [ok |-> TRUE, end |-> end, groups |-> groups]

\* `m = a; if not m: m = b`
OrElse(a, b) == IF a.ok THEN a ELSE b

\* the number a repetition or an alternation tries first among those after
\* which the rest matches: the largest when greedy, the least when lazy
\* or among alternatives; -1 when there is none
Preferred(good, lazy) == IF good = {} THEN -1 ELSE IF lazy THEN Min(good) ELSE Max(good)

RECURSIVE MatchAt(_, _, _, _, _)
RECURSIVE MatchItem(_, _, _, _, _, _)

\* the rest of the pattern after a repetition of k characters
AfterRun(k, rest, text, pos, groups, fl) ==
    IF k < 0 THEN Failure ELSE MatchAt(rest, text, pos + k, groups, fl)

\* the n-th alternative, then the rest of the pattern
AfterAlt(n, alts, rest, text, pos, groups, fl) ==
    IF n < 0 THEN Failure ELSE MatchAt(alts[n] \o rest, text, pos, groups, fl)

\* the first way, in re's order, to match the items from pos on
MatchAt(items, text, pos, groups, fl) ==
    IF items = <<>> THEN Success(pos, groups)
    ELSE MatchItem(Head(items), Tail(items), text, pos, groups, fl)

MatchItem(item, rest, text, pos, groups, fl) ==
    CASE item.t = "lit" ->
             IF LitAt(text, pos, item.s, fl)
             THEN MatchAt(rest, text, pos + Len(item.s), groups, fl)
             ELSE Failure
      [] item.t = "rep" ->
             AfterRun(Preferred({k \in item.least..Run(text, pos, item.cls, item.most, fl) :
                                    MatchAt(rest, text, pos + k, groups, fl).ok},
                                item.lazy),
                      rest, text, pos, groups, fl)
      [] item.t = "group" ->
             MatchAt(item.items \o <<Captured(pos)>> \o rest, text, pos, groups, fl)
      [] item.t = "captured" ->
             MatchAt(rest, text, pos, Append(groups, SubSeq(text, item.from, pos - 1)), fl)
      [] item.t = "alt" ->
             AfterAlt(Preferred({n \in 1..Len(item.alts) :
                                    MatchAt(item.alts[n] \o rest, text, pos, groups, fl).ok},
                                TRUE),
                      item.alts, rest, text, pos, groups, fl)
      [] item.t = "lookahead" ->
             IF MatchAt(item.items, text, pos, groups, fl).ok
             THEN MatchAt(rest, text, pos, groups, fl)
             ELSE Failure
      [] item.t = "bol" ->
             IF AtBol(text, pos, fl) THEN MatchAt(rest, text, pos, groups, fl) ELSE Failure
      [] item.t = "eol" ->
             IF AtEol(text, pos, fl) THEN MatchAt(rest, text, pos, groups, fl) ELSE Failure
      [] item.t = "endz" ->
             IF pos = Len(text) + 1 THEN MatchAt(rest, text, pos, groups, fl) ELSE Failure

\* re.match
re_match(pattern, text, fl) == MatchAt(pattern, text, 1, <<>>, fl)

\* a match found at `start`; an empty match at position `skip` is not taken
Found(m, start, skip) ==
    IF m.ok /\ ~(m.end = start /\ start = skip)
    THEN [ok |-> TRUE, start |-> start, end |-> m.end, groups |-> m.groups]
    ELSE Failure

\* the match at `start`; 0: there is no start
FoundAt(pattern, text, start, skip, fl) ==
    IF start = 0 THEN Failure
    ELSE Found(MatchAt(pattern, text, start, <<>>, fl), start, skip)

\* the leftmost match starting at `from` or later (skip 0: none excluded)
SearchFrom(pattern, text, from, skip, fl) ==
    FoundAt(pattern, text,
            FirstOr({s \in from..(Len(text) + 1) :
                        Found(MatchAt(pattern, text, s, <<>>, fl), s, skip).ok}, 0),
            skip, fl)

\* re.search
re_search(pattern, text, fl) == SearchFrom(pattern, text, 1, 0, fl)

RECURSIVE SplitFrom(_, _, _, _, _, _)

\* the piece before the match m, then the pieces of the text after it
SplitAt(m, pattern, text, last, fl) ==
    IF ~m.ok THEN <<SubSeq(text, last, Len(text))>>
    ELSE <<SubSeq(text, last, m.start - 1)>>
         \o SplitFrom(pattern, text, m.end, m.end, IF m.end = m.start THEN m.end ELSE 0, fl)

SplitFrom(pattern, text, last, from, skip, fl) ==
    SplitAt(SearchFrom(pattern, text, from, skip, fl), pattern, text, last, fl)

\* re.split (patterns without capturing groups)
re_split(pattern, text, fl) == SplitFrom(pattern, text, 1, 1, 0, fl)

----------------------------------------------------------------------------
(* Python's str methods on output texts *)

\* str.strip()
str_strip(s) ==
    LET ink == {n \in 1..Len(s) : At(s, n) \notin Space}
    IN  IF ink = {} THEN "" ELSE SubSeq(s, Min(ink), Max(ink))

\* str.rstrip(chars)
str_rstrip(s, chars) ==
    LET keep == {n \in 1..Len(s) : At(s, n) \notin chars}
    IN  IF keep = {} THEN "" ELSE SubSeq(s, 1, Max(keep))

\* str.startswith(prefix)
startswith(s, prefix) == Len(prefix) <= Len(s) /\ SubSeq(s, 1, Len(prefix)) = prefix

RECURSIVE SplitOn(_, _)
\* the pieces of s between the characters of seps, empty pieces included
SplitOn(s, seps) ==
    LET cuts == {n \in 1..Len(s) : At(s, n) \in seps}
    IN  IF cuts = {} THEN <<s>>
        ELSE <<SubSeq(s, 1, Min(cuts) - 1)>> \o SplitOn(SubSeq(s, Min(cuts) + 1, Len(s)), seps)

\* str.split(): the maximal runs of non-whitespace characters
str_split(s) == SelectSeq(SplitOn(s, Space), LAMBDA piece : piece # "")

\* str.splitlines(): a final line break opens no further line
splitlines(s) ==
    LET pieces == SplitOn(s, {"\n"})
    IN  IF pieces[Len(pieces)] = "" THEN SubSeq(pieces, 1, Len(pieces) - 1) ELSE pieces

----------------------------------------------------------------------------
(* parsers/*.py: parse_version *)

WS == In(Space)
NonWS == NotIn(Space)

\* r"<label>\s*(\S+)"
Field(label) == <<Lit(label), Star(WS), Group(<<Plus(NonWS)>>)>>
\* r"<label>\s*:\s*(\S+)"
ColonField(label) == <<Lit(label), Star(WS), Lit(":"), Star(WS), Group(<<Plus(NonWS)>>)>>

\* info = {"hostname": "", "model": "", "os_version": ""}
EmptyInfo == [hostname |-> "", model |-> "", os_version |-> ""]

\* `if m: info[key] = m.group(1)`
Assign(info, key, m) == IF m.ok THEN [info EXCEPT ![key] = m.groups[1]] ELSE info

cisco_ios_parse_version(output) ==
    LET hostname == re_search(<<Group(<<Plus(NonWS)>>), Plus(WS), Lit("uptime is")>>,
                              output, NoFlags)
        version == re_search(<<Lit("Cisco IOS"), LazyStar(Dot), Lit("Version"), Plus(WS),
                               Group(<<Plus(NonWS)>>)>>, output, IGNORECASE)
        model == OrElse(re_search(<<One(In({"C", "c"})), Lit("isco"), Plus(WS),
                                    Group(<<Plus(In(Word \cup {"-", "/"}))>>), Plus(WS),
                                    LazyStar(Dot), Lit("processor")>>, output, NoFlags),
                        re_search(<<Lit("Model "), One(In({"N", "n"})), Lit("umber"),
                                    Star(WS), Lit(":"), Star(WS), Group(<<Plus(NonWS)>>)>>,
                                  output, NoFlags))
        info1 == Assign(EmptyInfo, "hostname", hostname)
        info2 == IF version.ok
                 THEN [info1 EXCEPT !.os_version = str_rstrip(version.groups[1], {","})]
                 ELSE info1
    IN  Returned(Assign(info2, "model", model))

cisco_nxos_parse_version(output) ==
    LET hostname == re_search(Field("Device name:"), output, NoFlags)
        version == OrElse(re_search(<<Lit("NXOS"), LazyStar(Dot), Lit("version"), Plus(WS),
                                      Group(<<Plus(NonWS)>>)>>, output, IGNORECASE),
                          re_search(<<Lit("system:"), Plus(WS), Lit("version"), Plus(WS),
                                      Group(<<Plus(NonWS)>>)>>, output, IGNORECASE))
        model == OrElse(re_search(<<Lit("Hardware\n"), Plus(WS), Lit("cisco"), Plus(WS),
                                    Group(<<Plus(NonWS)>>)>>, output, IGNORECASE),
                        re_search(<<Lit("cisco"), Plus(WS),
                                    Group(<<Lit("Nexus"), LazyPlus(In(Word \cup Space))>>),
                                    Plus(WS), Lit("Chassis")>>, output, IGNORECASE))
    IN  Returned(Assign(Assign(Assign(EmptyInfo, "hostname", hostname),
                               "os_version", version), "model", model))

arista_eos_parse_version(output) ==
    LET model == re_search(<<Lit("Arista"), Plus(WS), Group(<<Plus(In(Word \cup {"-"}))>>)>>,
                           output, NoFlags)
        version == re_search(Field("Software image version:"), output, NoFlags)
        hostname == re_search(Field("Hostname:"), output, NoFlags)
    IN  Returned(Assign(Assign(Assign(EmptyInfo, "model", model),
                               "os_version", version), "hostname", hostname))

paloalto_panos_parse_version(output) ==
    LET hostname == re_search(Field("hostname:"), output, NoFlags)
        model == re_search(Field("model:"), output, NoFlags)
        version == re_search(Field("sw-version:"), output, NoFlags)
    IN  Returned(Assign(Assign(Assign(EmptyInfo, "hostname", hostname),
                               "model", model), "os_version", version))

juniper_junos_parse_version(output) ==
    LET hostname == re_search(Field("Hostname:"), output, NoFlags)
        model == re_search(Field("Model:"), output, NoFlags)
        version ==
            OrElse(re_search(Field("Junos:"), output, NoFlags),
            OrElse(re_search(<<Lit("JUNOS"), LazyStar(Dot), Lit("["),
                               Group(<<LazyPlus(NonWS)>>), Lit("]")>>, output, NoFlags),
                   re_search(<<Lit("Junos"), LazyStar(Dot), Lit("Release"), Plus(WS),
                               Group(<<Plus(NonWS)>>)>>, output, IGNORECASE)))
    IN  Returned(Assign(Assign(Assign(EmptyInfo, "hostname", hostname),
                               "model", model), "os_version", version))

fortinet_fortios_parse_version(output) ==
    LET hostname == re_search(Field("Hostname:"), output, NoFlags)
        both == re_search(<<Lit("Version:"), Star(WS), Group(<<Plus(NonWS)>>), Plus(WS),
                            Group(<<Lit("v"), Plus(In(Digit \cup {"."}))>>)>>,
                          output, NoFlags)
        only == re_search(Field("Version:"), output, NoFlags)
        platform == re_search(<<Lit("Platform"), LazyStar(Dot), Lit(":"), Star(WS),
                                Group(<<Plus(NonWS)>>)>>, output, NoFlags)
        info1 == Assign(EmptyInfo, "hostname", hostname)
        info2 == IF both.ok
                 THEN [info1 EXCEPT !.model = both.groups[1], !.os_version = both.groups[2]]
                 ELSE Assign(info1, "model", only)
    IN  Returned(IF info2.model = "" THEN Assign(info2, "model", platform) ELSE info2)

sonic_parse_version(output) ==
    LET hostname == re_search(Field("Hostname:"), output, IGNORECASE)
        version == OrElse(re_search(Field("SONiC Software Version:"), output, IGNORECASE),
                          re_search(Field("Software Version:"), output, IGNORECASE))
        model == OrElse(re_search(Field("HwSKU:"), output, IGNORECASE),
                        re_search(Field("Platform:"), output, IGNORECASE))
    IN  Returned(Assign(Assign(Assign(EmptyInfo, "hostname", hostname),
                               "os_version", version), "model", model))

\* tokens[0]: IndexError on an empty list
IndexError == [raised |-> TRUE, error |-> "IndexError"]
First(tokens) == IF tokens = <<>> THEN IndexError ELSE Returned(tokens[1])

\* `model_str.split()[0]` without the test of model_str
FirstWord_unguarded(model_str) == First(str_split(model_str))

\* `model_str.split()[0] if model_str else ""`
FirstWord(model_str) ==
    IF model_str # "" THEN First(str_split(model_str)) ELSE Returned("")

extreme_exos_parse_version(output) ==
    LET hostname == OrElse(re_search(ColonField("SysName"), output, IGNORECASE),
                           re_search(ColonField("System Name"), output, IGNORECASE))
        version == OrElse(re_search(<<Lit("ExtremeXOS"), Plus(WS), Lit("version"), Plus(WS),
                                      Group(<<Plus(NonWS)>>)>>, output, IGNORECASE),
                          re_search(Field("IMG:"), output, NoFlags))
        switch == re_search(<<Lit("Switch"), Star(WS), Lit(":"), Star(WS),
                              Group(<<LazyPlus(Dot)>>), Alt(<< <<Lit("\n")>>, <<Eol>> >>)>>,
                            output, NoFlags)
        model_str == IF switch.ok THEN str_strip(switch.groups[1]) ELSE ""
        m2 == re_search(<<Group(<<Alt(<< <<Lit("Summit"), Plus(WS), Plus(NonWS)>>,
                                         <<Lit("X"), Plus(In(Digit)), Star(NonWS)>>,
                                         <<Lit("VSP-"), Plus(NonWS)>>,
                                         <<Lit("ExtremeSwitching"), Plus(WS), Plus(NonWS)>> >>)>>)>>,
                        model_str, IGNORECASE)
        model == IF ~switch.ok THEN Returned("")
                 ELSE IF m2.ok THEN Returned(m2.groups[1])
                 ELSE FirstWord(model_str)
        system_type == re_search(ColonField("System Type"), output, IGNORECASE)
        info == Assign(Assign(EmptyInfo, "hostname", hostname), "os_version", version)
    IN  IF model.raised THEN model
        ELSE IF model.value = "" THEN Returned(Assign(info, "model", system_type))
        ELSE Returned([info EXCEPT !.model = model.value])

\* parser.parse_version for the module get_parser returned
parse_version(module, output) ==
    CASE module = "ndg.parsers.cisco_ios"        -> cisco_ios_parse_version(output)
      [] module = "ndg.parsers.cisco_nxos"       -> cisco_nxos_parse_version(output)
      [] module = "ndg.parsers.arista_eos"       -> arista_eos_parse_version(output)
      [] module = "ndg.parsers.paloalto_panos"   -> paloalto_panos_parse_version(output)
      [] module = "ndg.parsers.juniper_junos"    -> juniper_junos_parse_version(output)
      [] module = "ndg.parsers.fortinet_fortios" -> fortinet_fortios_parse_version(output)
      [] module = "ndg.parsers.sonic"            -> sonic_parse_version(output)
      [] module = "ndg.parsers.extreme_exos"     -> extreme_exos_parse_version(output)

----------------------------------------------------------------------------
(* parsers/*.py: parse_cdp_neighbors_detail and parse_lldp_neighbors_detail *)

\* r"\d+\.\d+\.\d+\.\d+"
Ip == <<Plus(In(Digit)), Lit("."), Plus(In(Digit)), Lit("."),
        Plus(In(Digit)), Lit("."), Plus(In(Digit))>>
Quote == Opt(In({"\""}))

\* `if m: neighbor[key] = m.group(g)`
SetGroup(neighbor, key, m, g) ==
    IF m.ok THEN DictSet(neighbor, key, m.groups[g]) ELSE neighbor
\* `if m: neighbor[key] = m.group(1).strip()`
SetStripped(neighbor, key, m) ==
    IF m.ok THEN DictSet(neighbor, key, str_strip(m.groups[1])) ELSE neighbor
\* `if m: neighbor[key] = m.group(1).strip().split("\n")[0]`
SetFirstLine(neighbor, key, m) ==
    IF m.ok THEN DictSet(neighbor, key, SplitOn(str_strip(m.groups[1]), {"\n"})[1])
    ELSE neighbor
\* `if m: neighbor[key] = m.group(1).rstrip(",")`
SetUncomma(neighbor, key, m) ==
    IF m.ok THEN DictSet(neighbor, key, str_rstrip(m.groups[1], {","})) ELSE neighbor

\* the end of a block's body without the test of remote_device
EmitIfNamed_always(neighbor) == <<neighbor>>

\* `if neighbor.get("remote_device"): neighbors.append(neighbor)`
EmitIfNamed(neighbor) ==
    IF Get(neighbor, "remote_device", "") # "" THEN <<neighbor>> ELSE <<>>

RECURSIVE Concat(_)
Concat(seqs) == IF seqs = <<>> THEN <<>> ELSE Head(seqs) \o Concat(Tail(seqs))

\* `for block in blocks: if not block.strip(): continue; ...`
BlockLoop(blocks, Body(_)) ==
    Concat([n \in 1..Len(blocks) |->
               IF str_strip(blocks[n]) = "" THEN <<>> ELSE Body(blocks[n])])

\* r"Interface:\s*(\S+),\s*Port ID.*?:\s*(\S+)"
CdpInterfaces ==
    <<Lit("Interface:"), Star(WS), Group(<<Plus(NonWS)>>), Lit(","), Star(WS),
      Lit("Port ID"), LazyStar(Dot), Lit(":"), Star(WS), Group(<<Plus(NonWS)>>)>>
\* r"<label>.*?:\s*(\d+\.\d+\.\d+\.\d+)"
AddressAfter(label) ==
    <<Lit(label), LazyStar(Dot), Lit(":"), Star(WS), Group(Ip)>>
\* r"(?:\n\n|\Z)"
BlankLineOrEnd == Alt(<< <<Lit("\n\n")>>, <<EndZ>> >>)
\* r"(?:\n\s*\n|\Z)"
BlankishLineOrEnd == Alt(<< <<Lit("\n"), Star(WS), Lit("\n")>>, <<EndZ>> >>)

cisco_ios_cdp_block(block) ==
    LET n1 == SetGroup(EmptyDict, "remote_device",
                       re_search(Field("Device ID:"), block, NoFlags), 1)
        n2 == SetGroup(n1, "remote_mgmt_ip",
                       re_search(Field("IP address:"), block, NoFlags), 1)
        n3 == SetStripped(n2, "remote_platform",
                          re_search(<<Lit("Platform:"), Star(WS), Group(<<LazyPlus(Dot)>>),
                                      Lit(",")>>, block, NoFlags))
        m == re_search(CdpInterfaces, block, NoFlags)
        n4 == SetGroup(SetGroup(n3, "local_interface", m, 1), "remote_interface", m, 2)
        n5 == SetStripped(n4, "remote_os_version",
                          re_search(<<Lit("Version"), Star(WS), Lit(":"), Star(WS), Lit("\n"),
                                      Group(<<LazyPlus(Dot)>>), BlankLineOrEnd>>,
                                    block, DOTALL))
    IN  EmitIfNamed(n5)

cisco_ios_parse_cdp_neighbors_detail(output) ==
    BlockLoop(re_split(<<AtLeast(In({"-"}), 10)>>, output, NoFlags), cisco_ios_cdp_block)

cisco_ios_lldp_block(block) ==
    LET n1 == SetGroup(EmptyDict, "remote_device",
                       re_search(Field("System Name:"), block, NoFlags), 1)
        n2 == SetGroup(n1, "remote_mgmt_ip",
                       re_search(<<Lit("Management Addresse"), Opt(In({"s"})), LazyStar(Dot),
                                   Lit("IP:"), Star(WS), Group(<<Plus(NonWS)>>)>>,
                                 block, DOTALL), 1)
        n3 == SetStripped(n2, "remote_platform",
                          re_search(<<Lit("System Description:"), Star(WS), Lit("\n"),
                                      Group(<<LazyPlus(Dot)>>), BlankLineOrEnd>>,
                                    block, DOTALL))
        n4 == SetGroup(n3, "local_interface",
                       re_search(Field("Local Intf:"), block, NoFlags), 1)
        n5 == SetGroup(n4, "remote_interface",
                       re_search(Field("Port id:"), block, NoFlags), 1)
    IN  EmitIfNamed(n5)

cisco_ios_parse_lldp_neighbors_detail(output) ==
    BlockLoop(re_split(<<AtLeast(In({"-"}), 10)>>, output, NoFlags), cisco_ios_lldp_block)

cisco_nxos_cdp_block(block) ==
    LET n1 == SetGroup(EmptyDict, "remote_device",
                       re_search(Field("Device ID:"), block, NoFlags), 1)
        n2 == SetGroup(n1, "remote_mgmt_ip",
                       re_search(<<Alt(<< <<Lit("IPv4 Address")>>, <<Lit("Mgmt address")>> >>),
                                   Lit(":"), Star(WS), Group(<<Plus(NonWS)>>)>>,
                                 block, IGNORECASE), 1)
        n3 == SetStripped(n2, "remote_platform",
                          re_search(<<Lit("Platform:"), Star(WS), Group(<<LazyPlus(Dot)>>),
                                      Alt(<< <<Lit(",")>>, <<Lit("\n")>> >>)>>,
                                    block, NoFlags))
        m == re_search(CdpInterfaces, block, NoFlags)
        n4 == SetGroup(SetGroup(n3, "local_interface", m, 1), "remote_interface", m, 2)
    IN  EmitIfNamed(n4)

cisco_nxos_parse_cdp_neighbors_detail(output) ==
    BlockLoop(re_split(<<AtLeast(In({"-"}), 10)>>, output, NoFlags), cisco_nxos_cdp_block)

cisco_nxos_lldp_block(block) ==
    LET n1 == SetGroup(EmptyDict, "remote_device",
                       re_search(Field("System Name:"), block, NoFlags), 1)
        n2 == SetGroup(n1, "remote_mgmt_ip",
                       re_search(AddressAfter("Management Address"), block, DOTALL), 1)
        n3 == SetGroup(n2, "remote_interface",
                       re_search(Field("Port id:"), block, NoFlags), 1)
        n4 == SetGroup(n3, "local_interface",
                       re_search(Field("Local Port id:"), block, NoFlags), 1)
    IN  EmitIfNamed(n4)

cisco_nxos_parse_lldp_neighbors_detail(output) ==
    BlockLoop(re_split(<<AtLeast(In({"-"}), 10)>>, output, NoFlags), cisco_nxos_lldp_block)

arista_eos_lldp_block(block) ==
    LET n1 == SetUncomma(EmptyDict, "local_interface",
                         re_match(<<Group(<<Plus(NonWS)>>)>>, block, NoFlags))
        n2 == SetGroup(n1, "remote_device",
                       re_search(<<Lit("System Name:"), Star(WS), Quote,
                                   Group(<<LazyPlus(NonWS)>>), Quote, Eol>>,
                                 block, MULTILINE), 1)
        n3 == SetGroup(n2, "remote_mgmt_ip",
                       re_search(AddressAfter("Management Address"), block, DOTALL), 1)
        n4 == SetGroup(n3, "remote_interface",
                       re_search(<<Lit("Port ID"), Star(WS), Lit(":"), Star(WS), Quote,
                                   Group(<<LazyPlus(NonWS)>>), Quote, Eol>>,
                                 block, MULTILINE), 1)
    IN  EmitIfNamed(n4)

arista_eos_parse_lldp_neighbors_detail(output) ==
    BlockLoop(re_split(<<Lit("Interface"), Plus(WS)>>, output, NoFlags), arista_eos_lldp_block)

arista_eos_parse_cdp_neighbors_detail(output) == <<>>

paloalto_panos_lldp_block(block) ==
    LET n1 == SetGroup(EmptyDict, "local_interface",
                       re_search(Field("Local Interface:"), block, NoFlags), 1)
        n2 == SetGroup(n1, "remote_device",
                       re_search(Field("Remote System Name:"), block, NoFlags), 1)
        n3 == SetGroup(n2, "remote_interface",
                       re_search(Field("Remote Port ID:"), block, NoFlags), 1)
        n4 == SetGroup(n3, "remote_mgmt_ip",
                       re_search(AddressAfter("Remote Management Address"), block, DOTALL), 1)
    IN  EmitIfNamed(n4)

paloalto_panos_parse_lldp_neighbors_detail(output) ==
    BlockLoop(re_split(<<Lookahead(<<Lit("Local Interface:")>>)>>, output, NoFlags),
              paloalto_panos_lldp_block)

paloalto_panos_parse_cdp_neighbors_detail(output) == <<>>

juniper_junos_lldp_block(block) ==
    LET n1 == SetGroup(EmptyDict, "remote_device",
                       re_search(<<Lit("System "), One(In({"N", "n"})), Lit("ame"), Star(WS),
                                   Lit(":"), Star(WS), Group(<<Plus(NonWS)>>)>>,
                                 block, NoFlags), 1)
        n2 == SetGroup(n1, "local_interface",
                       OrElse(re_search(ColonField("Local Interface"), block, NoFlags),
                              re_search(ColonField("Local Port"), block, NoFlags)), 1)
        n3 == SetGroup(n2, "remote_interface",
                       re_search(<<Alt(<< <<Lit("Port ID")>>, <<Lit("Remote Port")>> >>),
                                   Star(WS), Lit(":"), Star(WS), Group(<<Plus(NonWS)>>)>>,
                                 block, NoFlags), 1)
        n4 == SetGroup(n3, "remote_mgmt_ip",
                       re_search(AddressAfter("Management Address"), block, DOTALL), 1)
        n5 == SetFirstLine(n4, "remote_platform",
                           re_search(<<Lit("System Description"), Star(WS), Lit(":"), Star(WS),
                                       Group(<<LazyPlus(Dot)>>), BlankLineOrEnd>>,
                                     block, DOTALL))
    IN  EmitIfNamed(n5)

\* parts[-1], parts[-2]
Last(parts) == parts[Len(parts)]
LastButOne(parts) == parts[Len(parts) - 1]

\* `if neighbor["remote_device"]: neighbors.append(neighbor)`
EmitTableRow(neighbor) == IF neighbor.remote_device # "" THEN <<neighbor>> ELSE <<>>

juniper_junos_table_line(line) ==
    LET parts == str_split(line)
    IN  IF Len(parts) >= 4
           /\ re_match(<<One(In({"g", "x", "a", "e"}))>>, parts[1], IGNORECASE).ok
        THEN EmitTableRow(
                 [local_interface |-> parts[1],
                  remote_device |-> IF Len(parts) >= 5 THEN LastButOne(parts) ELSE Last(parts),
                  remote_interface |-> IF Len(parts) >= 5 THEN Last(parts) ELSE ""])
        ELSE <<>>

\* `for line in output.splitlines(): ...`
LineLoop(lines, Body(_)) == Concat([n \in 1..Len(lines) |-> Body(lines[n])])

juniper_junos_parse_lldp_neighbors_detail(output) ==
    LET neighbors == BlockLoop(re_split(<<Lit("\n"), Star(WS), Lit("\n")>>, output, NoFlags),
                               juniper_junos_lldp_block)
    IN  IF neighbors = <<>>
        THEN LineLoop(splitlines(output), juniper_junos_table_line)
        ELSE neighbors

juniper_junos_parse_cdp_neighbors_detail(output) == <<>>

fortinet_fortios_lldp_block(block) ==
    LET lines == splitlines(str_strip(block))
        first == str_strip(lines[1])
        n1 == IF lines # <<>>
                 /\ \/ re_match(<<Bol, Group(<<Alt(<< <<Lit("port")>>, <<Lit("internal")>>,
                                                      <<Lit("wan")>>, <<Lit("dmz")>>,
                                                      <<Lit("ssl")>>, <<Lit("npu")>> >>)>>),
                                  Star(NonWS), Eol>>, first, IGNORECASE).ok
                    \/ re_match(<<Bol, Plus(NonWS), Eol>>, first, NoFlags).ok
              THEN DictSet(EmptyDict, "local_interface", first)
              ELSE EmptyDict
        n2 == SetGroup(n1, "remote_device",
                       re_search(Field("System Name:"), block, NoFlags), 1)
        n3 == SetGroup(n2, "remote_interface",
                       re_search(Field("Port Id:"), block, NoFlags), 1)
        n4 == SetGroup(n3, "remote_mgmt_ip",
                       re_search(<<Lit("Management Address:"), Star(WS), Group(Ip)>>,
                                 block, NoFlags), 1)
        n5 == SetFirstLine(n4, "remote_platform",
                           re_search(<<Lit("System Description:"), Star(WS),
                                       Group(<<LazyPlus(Dot)>>), BlankishLineOrEnd>>,
                                     block, DOTALL))
    IN  EmitIfNamed(n5)

fortinet_fortios_parse_lldp_neighbors_detail(output) ==
    BlockLoop(re_split(<<Lookahead(<<Bol, Plus(NonWS), Star(WS), Eol>>)>>, output, MULTILINE),
              fortinet_fortios_lldp_block)

fortinet_fortios_parse_cdp_neighbors_detail(output) == <<>>

sonic_lldp_block(block) ==
    LET n1 == SetUncomma(EmptyDict, "local_interface",
                         re_search(<<Lit("Interface:"), Plus(WS), Group(<<Plus(NonWS)>>)>>,
                                   block, NoFlags))
        n2 == SetGroup(n1, "remote_device",
                       re_search(Field("SysName:"), block, NoFlags), 1)
        n3 == SetGroup(n2, "remote_interface",
                       re_search(<<Lit("PortID:"), Star(WS),
                                   Alt(<< <<Lit("ifname"), Plus(WS)>>, <<>> >>),
                                   Group(<<Plus(NonWS)>>)>>, block, NoFlags), 1)
        n4 == SetGroup(n3, "remote_mgmt_ip",
                       re_search(<<Lit("MgmtIP:"), Star(WS), Group(Ip)>>, block, NoFlags), 1)
        n5 == SetFirstLine(n4, "remote_platform",
                           re_search(<<Lit("SysDescr:"), Star(WS), Group(<<LazyPlus(Dot)>>),
                                       BlankishLineOrEnd>>, block, DOTALL))
    IN  EmitIfNamed(n5)

sonic_table_line(raw_line) ==
    LET line == str_strip(raw_line)
        parts == str_split(line)
    IN  IF line = "" \/ startswith(line, "-") THEN <<>>
        ELSE IF Len(parts) >= 3
                /\ re_match(<<Alt(<< <<Lit("Ethernet")>>, <<Lit("PortChannel")>> >>)>>,
                            parts[1], IGNORECASE).ok
        THEN << [local_interface |-> parts[1],
                 remote_device |-> parts[2],
                 remote_interface |-> IF Len(parts) > 2 THEN parts[3] ELSE ""] >>
        ELSE <<>>

sonic_parse_lldp_neighbors_detail(output) ==
    LET neighbors == BlockLoop(re_split(<<Lookahead(<<Lit("Interface:"), Plus(WS),
                                                      Plus(NonWS)>>)>>, output, NoFlags),
                               sonic_lldp_block)
    IN  IF neighbors = <<>>
        THEN LineLoop(splitlines(output), sonic_table_line)
        ELSE neighbors

sonic_parse_cdp_neighbors_detail(output) == <<>>

\* r"\"?(\S+?)\"?(?:\s|$)"
QuotedWord == <<Quote, Group(<<LazyPlus(NonWS)>>), Quote, Alt(<< <<One(WS)>>, <<Eol>> >>)>>

extreme_exos_lldp_block(block) ==
    LET n1 == SetGroup(EmptyDict, "local_interface",
                       re_search(<<Lit("LLDP Port"), Plus(WS), Group(<<Plus(NonWS)>>)>>,
                                 block, NoFlags), 1)
        n2 == SetGroup(n1, "remote_device",
                       re_search(<<Lit("System Name:"), Star(WS)>> \o QuotedWord,
                                 block, NoFlags), 1)
        n3 == SetGroup(n2, "remote_interface",
                       re_search(<<Lit("Port ID"), LazyStar(Dot), Lit(":"), Star(WS)>>
                                     \o QuotedWord, block, NoFlags), 1)
        n4 == SetGroup(n3, "remote_mgmt_ip",
                       re_search(<<Lit("Management Address:"), Star(WS), Group(Ip)>>,
                                 block, NoFlags), 1)
        n5 == SetStripped(n4, "remote_platform",
                          re_search(<<Lit("System Description:"), Star(WS), Quote,
                                      Group(<<LazyPlus(Dot)>>), Quote, Star(WS), Eol>>,
                                    block, MULTILINE))
    IN  EmitIfNamed(n5)

extreme_exos_parse_lldp_neighbors_detail(output) ==
    BlockLoop(re_split(<<Lookahead(<<Lit("LLDP Port"), Plus(WS)>>)>>, output, NoFlags),
              extreme_exos_lldp_block)

extreme_exos_cdp_block(block) ==
    LET n1 == SetGroup(EmptyDict, "local_interface",
                       re_search(<<Lit("CDP Port"), Plus(WS), Group(<<Plus(NonWS)>>)>>,
                                 block, NoFlags), 1)
        n2 == SetGroup(n1, "remote_device",
                       re_search(Field("Device ID:"), block, NoFlags), 1)
        n3 == SetGroup(n2, "remote_interface",
                       re_search(Field("Interface:"), block, NoFlags), 1)
        n4 == SetStripped(n3, "remote_platform",
                          re_search(<<Lit("Platform:"), Star(WS), Group(<<LazyPlus(Dot)>>),
                                      Alt(<< <<Lit("\n")>>, <<Eol>> >>)>>, block, NoFlags))
        n5 == SetGroup(n4, "remote_mgmt_ip",
                       re_search(<<Lit("IP Address:"), Star(WS), Group(Ip)>>, block, NoFlags), 1)
    IN  EmitIfNamed(n5)

extreme_exos_parse_cdp_neighbors_detail(output) ==
    BlockLoop(re_split(<<Lookahead(<<Lit("CDP Port"), Plus(WS)>>)>>, output, NoFlags),
              extreme_exos_cdp_block)

\* parser.parse_cdp_neighbors_detail for the module get_parser returned
parse_cdp_neighbors_detail(module, output) ==
    CASE module = "ndg.parsers.cisco_ios"        -> cisco_ios_parse_cdp_neighbors_detail(output)
      [] module = "ndg.parsers.cisco_nxos"       -> cisco_nxos_parse_cdp_neighbors_detail(output)
      [] module = "ndg.parsers.arista_eos"       -> arista_eos_parse_cdp_neighbors_detail(output)
      [] module = "ndg.parsers.paloalto_panos"   -> paloalto_panos_parse_cdp_neighbors_detail(output)
      [] module = "ndg.parsers.juniper_junos"    -> juniper_junos_parse_cdp_neighbors_detail(output)
      [] module = "ndg.parsers.fortinet_fortios" -> fortinet_fortios_parse_cdp_neighbors_detail(output)
      [] module = "ndg.parsers.sonic"            -> sonic_parse_cdp_neighbors_detail(output)
      [] module = "ndg.parsers.extreme_exos"     -> extreme_exos_parse_cdp_neighbors_detail(output)

\* parser.parse_lldp_neighbors_detail for the module get_parser returned
parse_lldp_neighbors_detail(module, output) ==
    CASE module = "ndg.parsers.cisco_ios"        -> cisco_ios_parse_lldp_neighbors_detail(output)
      [] module = "ndg.parsers.cisco_nxos"       -> cisco_nxos_parse_lldp_neighbors_detail(output)
      [] module = "ndg.parsers.arista_eos"       -> arista_eos_parse_lldp_neighbors_detail(output)
      [] module = "ndg.parsers.paloalto_panos"   -> paloalto_panos_parse_lldp_neighbors_detail(output)
      [] module = "ndg.parsers.juniper_junos"    -> juniper_junos_parse_lldp_neighbors_detail(output)
      [] module = "ndg.parsers.fortinet_fortios" -> fortinet_fortios_parse_lldp_neighbors_detail(output)
      [] module = "ndg.parsers.sonic"            -> sonic_parse_lldp_neighbors_detail(output)
      [] module = "ndg.parsers.extreme_exos"     -> extreme_exos_parse_lldp_neighbors_detail(output)

----------------------------------------------------------------------------
(* The parser functions called on output texts *)

MaxFragments == 2

Modules == Range(_PARSER_MAP)
Functions == {"parse_version", "parse_cdp_neighbors_detail", "parse_lldp_neighbors_detail"}

\* pieces of version output, per parser module
VersionFragments(module) ==
    CASE module = "ndg.parsers.cisco_ios" ->
             {"r1.lab uptime is 1 day\n", "Cisco IOS Software, Version 15.2(4)M6, REL\n",
              "cisco C3750 (PowerPC) processor\n", "Model Number : WS-C2960\n", " uptime is\n",
              "cisco ios version\n"}
      [] module = "ndg.parsers.cisco_nxos" ->
             {"Device name: n9k\n", "NXOS: version 9.3(5)\n", "system: version 7.0\n",
              "Hardware\n  cisco N9K-C93180\n", "cisco Nexus 9000 C9300 Chassis\n",
              "Device name:\n"}
      [] module = "ndg.parsers.arista_eos" ->
             {"Arista DCS-7050\n", "Software image version: 4.28.3M\n", "Hostname: a1\n",
              "Arista \n", "Hostname:\n", "hostname: x\n"}
      [] module = "ndg.parsers.paloalto_panos" ->
             {"hostname: pa1\n", "model: PA-220\n", "sw-version: 10.1.0\n", "model:\n",
              "Hostname: X\n", "family: 200\n"}
      [] module = "ndg.parsers.juniper_junos" ->
             {"Hostname: mx1\n", "Model: mx240\n", "Junos: 21.4R3\n",
              "JUNOS Base OS boot [21.2R3]\n", "Junos OS Release 20.1 built\n", "Model:\n"}
      [] module = "ndg.parsers.fortinet_fortios" ->
             {"Hostname: fg1\n", "Version: FortiGate-600E v7.2.5,build1517\n",
              "Version: FortiGate-60F\n", "Platform Full Name: FortiGate-600E\n", "Version:\n",
              "Platform\n"}
      [] module = "ndg.parsers.sonic" ->
             {"Hostname: sp1\n", "SONiC Software Version: SONiC.4.1\n",
              "Software Version: 3.0\n", "HwSKU: Z9332f\n", "Platform: x86_64\n", "hwsku:\n"}
      [] module = "ndg.parsers.extreme_exos" ->
             {"SysName : sw3\n", "ExtremeXOS version 31.7 by rm\n",
              "Switch : 800611 Rev 6.0 IMG: 31.7.1.4\n", "Switch : Summit X460-48t\n",
              "Switch :  ", "System Type: X440\n"}

\* pieces of CDP neighbor output, per parser module
CdpFragments(module) ==
    CASE module = "ndg.parsers.cisco_ios" ->
             {"----------\n", "Device ID: r2.lab\n", "Device ID:\n",
              "Interface: Gi0/1,  Port ID (outgoing port): Gi0/2\n",
              "Platform: cisco WS-C2960, Capabilities: Switch\n", "Version :\nCisco IOS 15\n\n"}
      [] module = "ndg.parsers.cisco_nxos" ->
             {"----------\n", "Device ID: n2\n", "Device ID: \n",
              "Interface: Eth1/1, Port ID (outgoing port): Eth1/2\n",
              "IPv4 Address: 10.0.0.3\n", "Platform: N9K-C93180\n"}
      [] module = "ndg.parsers.arista_eos" ->
             {"----------\n", "Device ID: a2\n"}
      [] module = "ndg.parsers.paloalto_panos" ->
             {"----------\n", "Device ID: r3\n"}
      [] module = "ndg.parsers.juniper_junos" ->
             {"----------\n", "Device ID: mx2\n"}
      [] module = "ndg.parsers.fortinet_fortios" ->
             {"----------\n", "Device ID: fg2\n"}
      [] module = "ndg.parsers.sonic" ->
             {"----------\n", "Device ID: sp2\n"}
      [] module = "ndg.parsers.extreme_exos" ->
             {"CDP Port 1 Neighbor 00:aa\n", "  Device ID: r5\n", "  Device ID:\n",
              "  Interface: Gi0/1\n", "  IP Address: 10.0.0.5\n", "CDP Port  \n"}

\* pieces of LLDP neighbor output, per parser module
LldpFragments(module) ==
    CASE module = "ndg.parsers.cisco_ios" ->
             {"----------\n", "Local Intf: Gi0/1\n", "Port id: Gi0/2\n", "System Name: r2\n",
              "System Name:\n", "System Description:\nCisco IOS\n\n"}
      [] module = "ndg.parsers.cisco_nxos" ->
             {"----------\n", "Local Port id: Eth1/1\n", "Port id: Eth1/2\n",
              "System Name: n2\n", "System Name: \n", "Management Address: 10.0.0.3\n"}
      [] module = "ndg.parsers.arista_eos" ->
             {"Interface Ethernet1 detected 1 LLDP neighbors:\n", "  System Name: \"a2\"\n",
              "  Port ID     : \"Ethernet2\"\n", "  Port ID type: Interface name(5)\n",
              "  System Name:\n", "  Management Address: 10.0.0.4\n"}
      [] module = "ndg.parsers.paloalto_panos" ->
             {"Local Interface: ethernet1/1\n", "Remote System Name: r3\n",
              "Remote System Name:\n", "Remote Port ID: Gi0/3\n",
              "Remote Management Address: 10.0.0.6\n", "junk\n"}
      [] module = "ndg.parsers.juniper_junos" ->
             {"\n", "Local Interface : ge-0/0/0\n", "System name : mx2\n", "System Name :\n",
              "Port ID : ge-0/0/1\n", "ge-0/0/0 - 00:aa mx3\n",
              "xe-0/0/1 ae0 00:bb xe-0/0/2 mx4\n"}
      [] module = "ndg.parsers.fortinet_fortios" ->
             {"port1\n", "  System Name: fg2\n", "  System Name:\n", "  Port Id: Gi0/1\n",
              "  System Description: Forti\n\n", "\n"}
      [] module = "ndg.parsers.sonic" ->
             {"Interface:    Ethernet0, via: LLDP\n", "    SysName:      sp2\n",
              "    SysName:\n", "    PortID:       ifname Ethernet4\n",
              "Ethernet0    sp3    Ethernet4\n", "-----  ----\n", "PortChannel1 sp4\n"}
      [] module = "ndg.parsers.extreme_exos" ->
             {"LLDP Port 1 detected 1 neighbor\n", "   - System Name: \"sw5\"\n",
              "   - System Name: \"\"\n", "   - Port ID (Interface Name): \"Gi0/1\"\n",
              "   - System Description: \"Cisco IOS\"\n", "   - System Name:\n"}

Fragments(function, module) ==
    CASE function = "parse_version" -> VersionFragments(module)
      [] function = "parse_cdp_neighbors_detail" -> CdpFragments(module)
      [] function = "parse_lldp_neighbors_detail" -> LldpFragments(module)

RECURSIVE Texts(_, _)
\* the texts made of at most n pieces
Texts(pool, n) ==
    IF n = 0 THEN {""}
    ELSE Texts(pool, n - 1) \cup {t \o f : t \in Texts(pool, n - 1), f \in pool}

\* the neighbors a device prints a block for: remote device, local
\* interface, remote interface
Adjacencies ==
    {[remote_device |-> "r2.lab", local_interface |-> "Ethernet1", remote_interface |-> "Ethernet2"],
     [remote_device |-> "r3", local_interface |-> "Ethernet3", remote_interface |-> "Ethernet4"]}

\* one entry of `show cdp neighbors detail` of IOS, with or without the
\* Platform line, opened by the line of dashes
CdpEntry(adj, long) ==
    "-------------------------\n"
    \o "Device ID: " \o adj.remote_device \o "\n"
    \o (IF long THEN "Platform: cisco WS-C2960,  Capabilities: Switch IGMP\n" ELSE "")
    \o "Interface: " \o adj.local_interface
    \o ",  Port ID (outgoing port): " \o adj.remote_interface \o "\n"

\* one entry of `show lldp neighbors detail` of NX-OS, with or without the
\* management address
NxosLldpEntry(adj, long) ==
    "Chassis id: 00aa.bbcc.dd01\n"
    \o "Port id: " \o adj.remote_interface \o "\n"
    \o "Local Port id: " \o adj.local_interface \o "\n"
    \o "System Name: " \o adj.remote_device \o "\n"
    \o (IF long THEN "Management Address: 10.0.0.3\n" ELSE "")

\* one entry of `show lldp neighbors detail` of EOS, with or without the
\* line that gives the subtype of the port id
EosLldpEntry(adj, long) ==
    "Interface " \o adj.local_interface \o " detected 1 LLDP neighbors:\n"
    \o (IF long THEN "  - Port ID type: Interface name(5)\n" ELSE "")
    \o "    Port ID     : \"" \o adj.remote_interface \o "\"\n"
    \o "  - System Name: \"" \o adj.remote_device \o "\"\n"

\* the parsers the two-block texts are written for
BlockParsers ==
    {[function |-> "parse_cdp_neighbors_detail", module |-> "ndg.parsers.cisco_ios"],
     [function |-> "parse_lldp_neighbors_detail", module |-> "ndg.parsers.cisco_nxos"],
     [function |-> "parse_lldp_neighbors_detail", module |-> "ndg.parsers.arista_eos"]}

\* a block of the output the parser of the module reads, and the line that
\* stands between two of them
Entry(module, adj, long) ==
    CASE module = "ndg.parsers.cisco_ios"  -> CdpEntry(adj, long)
      [] module = "ndg.parsers.cisco_nxos" -> NxosLldpEntry(adj, long)
      [] module = "ndg.parsers.arista_eos" -> EosLldpEntry(adj, long)

Delimiter(module) ==
    IF module = "ndg.parsers.cisco_nxos" THEN "--------------------\n" ELSE ""

\* the texts of two blocks, each with the two neighbors it was written from
TwoBlockTexts(function, module) ==
    IF [function |-> function, module |-> module] \notin BlockParsers THEN {}
    ELSE {[first |-> a, second |-> b,
           text |-> Entry(module, a, la) \o Delimiter(module) \o Entry(module, b, lb)] :
              a \in Adjacencies, b \in Adjacencies, la \in BOOLEAN, lb \in BOOLEAN}

\* the texts a parser function is called on
Outputs(function, module) ==
    Texts(Fragments(function, module), MaxFragments)
        \cup {two.text : two \in TwoBlockTexts(function, module)}

InitParse ==
    /\ nodes = EmptyDict
    /\ edges = <<>>
    /\ _seen_edges = {}
    /\ calls = <<>>
    /\ device_facts = <<>>
    /\ neighbor_data = <<>>
    /\ _host_to_hostname = EmptyDict
    /\ local_hostname = None
    /\ facts_idx = 0
    /\ nd_idx = 0
    /\ nbr_idx = 0
    /\ c_in = <<>>
    /\ c_out = <<>>
    /\ CollectIdle
    /\ pc = "call"
    /\ parser_module \in Modules
    /\ parser_function \in Functions
    /\ raw_output \in Outputs(parser_function, parser_module)
    /\ returned = EmptyDict

notParseVars == <<topoVars, calls, buildVars, canonVars, collectVars, registryVars>>

CallParseVersion ==
    /\ pc = "call"
    /\ parser_function = "parse_version"
    /\ returned' = parse_version(parser_module, raw_output)
    /\ pc' = "returned"
    /\ UNCHANGED <<notParseVars, parser_module, parser_function, raw_output>>

CallParseCdp ==
    /\ pc = "call"
    /\ parser_function = "parse_cdp_neighbors_detail"
    /\ returned' = Returned(parse_cdp_neighbors_detail(parser_module, raw_output))
    /\ pc' = "returned"
    /\ UNCHANGED <<notParseVars, parser_module, parser_function, raw_output>>

CallParseLldp ==
    /\ pc = "call"
    /\ parser_function = "parse_lldp_neighbors_detail"
    /\ returned' = Returned(parse_lldp_neighbors_detail(parser_module, raw_output))
    /\ pc' = "returned"
    /\ UNCHANGED <<notParseVars, parser_module, parser_function, raw_output>>

NextParse ==
    \/ CallParseVersion
    \/ CallParseCdp
    \/ CallParseLldp

SpecParse == InitParse /\ [][NextParse]_vars

----------------------------------------------------------------------------
(* Properties of the parsers *)

Searched(pattern, fl) == [pattern |-> pattern, fl |-> fl]

\* the patterns parse_version of each parser module searches the output for
VersionPatterns(module) ==
    CASE module = "ndg.parsers.cisco_ios" ->
             {Searched(<<Group(<<Plus(NonWS)>>), Plus(WS), Lit("uptime is")>>, NoFlags),
              Searched(<<Lit("Cisco IOS"), LazyStar(Dot), Lit("Version"), Plus(WS),
                         Group(<<Plus(NonWS)>>)>>, IGNORECASE),
              Searched(<<One(In({"C", "c"})), Lit("isco"), Plus(WS),
                         Group(<<Plus(In(Word \cup {"-", "/"}))>>), Plus(WS),
                         LazyStar(Dot), Lit("processor")>>, NoFlags),
              Searched(<<Lit("Model "), One(In({"N", "n"})), Lit("umber"),
                         Star(WS), Lit(":"), Star(WS), Group(<<Plus(NonWS)>>)>>, NoFlags)}
      [] module = "ndg.parsers.cisco_nxos" ->
             {Searched(Field("Device name:"), NoFlags),
              Searched(<<Lit("NXOS"), LazyStar(Dot), Lit("version"), Plus(WS),
                         Group(<<Plus(NonWS)>>)>>, IGNORECASE),
              Searched(<<Lit("system:"), Plus(WS), Lit("version"), Plus(WS),
                         Group(<<Plus(NonWS)>>)>>, IGNORECASE),
              Searched(<<Lit("Hardware\n"), Plus(WS), Lit("cisco"), Plus(WS),
                         Group(<<Plus(NonWS)>>)>>, IGNORECASE),
              Searched(<<Lit("cisco"), Plus(WS),
                         Group(<<Lit("Nexus"), LazyPlus(In(Word \cup Space))>>),
                         Plus(WS), Lit("Chassis")>>, IGNORECASE)}
      [] module = "ndg.parsers.arista_eos" ->
             {Searched(<<Lit("Arista"), Plus(WS), Group(<<Plus(In(Word \cup {"-"}))>>)>>,
                       NoFlags),
              Searched(Field("Software image version:"), NoFlags),
              Searched(Field("Hostname:"), NoFlags)}
      [] module = "ndg.parsers.paloalto_panos" ->
             {Searched(Field("hostname:"), NoFlags), Searched(Field("model:"), NoFlags),
              Searched(Field("sw-version:"), NoFlags)}
      [] module = "ndg.parsers.juniper_junos" ->
             {Searched(Field("Hostname:"), NoFlags), Searched(Field("Model:"), NoFlags),
              Searched(Field("Junos:"), NoFlags),
              Searched(<<Lit("JUNOS"), LazyStar(Dot), Lit("["), Group(<<LazyPlus(NonWS)>>),
                         Lit("]")>>, NoFlags),
              Searched(<<Lit("Junos"), LazyStar(Dot), Lit("Release"), Plus(WS),
                         Group(<<Plus(NonWS)>>)>>, IGNORECASE)}
      [] module = "ndg.parsers.fortinet_fortios" ->
             {Searched(Field("Hostname:"), NoFlags),
              Searched(<<Lit("Version:"), Star(WS), Group(<<Plus(NonWS)>>), Plus(WS),
                         Group(<<Lit("v"), Plus(In(Digit \cup {"."}))>>)>>, NoFlags),
              Searched(Field("Version:"), NoFlags),
              Searched(<<Lit("Platform"), LazyStar(Dot), Lit(":"), Star(WS),
                         Group(<<Plus(NonWS)>>)>>, NoFlags)}
      [] module = "ndg.parsers.sonic" ->
             {Searched(Field("Hostname:"), IGNORECASE),
              Searched(Field("SONiC Software Version:"), IGNORECASE),
              Searched(Field("Software Version:"), IGNORECASE),
              Searched(Field("HwSKU:"), IGNORECASE), Searched(Field("Platform:"), IGNORECASE)}
      [] module = "ndg.parsers.extreme_exos" ->
             {Searched(ColonField("SysName"), IGNORECASE),
              Searched(ColonField("System Name"), IGNORECASE),
              Searched(<<Lit("ExtremeXOS"), Plus(WS), Lit("version"), Plus(WS),
                         Group(<<Plus(NonWS)>>)>>, IGNORECASE),
              Searched(Field("IMG:"), NoFlags),
              Searched(<<Lit("Switch"), Star(WS), Lit(":"), Star(WS),
                         Group(<<LazyPlus(Dot)>>), Alt(<< <<Lit("\n")>>, <<Eol>> >>)>>, NoFlags),
              Searched(ColonField("System Type"), IGNORECASE)}

\* the output holds one of the patterns the module's parse_version looks for
Recognised(module, output) ==
    \E p \in VersionPatterns(module) : re_search(p.pattern, output, p.fl).ok

VersionKeys == {"hostname", "model", "os_version"}

VersionReturned == pc = "returned" /\ parser_function = "parse_version"

\* C19: parse_version of every parser module returns, without raising, a
\* record with exactly the keys hostname, model and os_version, each a
\* string; when the text holds none of the patterns the parser looks for,
\* all three are the empty string.
C19_ParseVersionTotal ==
    VersionReturned =>
        /\ ~returned.raised
        /\ DOMAIN returned.value = VersionKeys
        /\ \A key \in VersionKeys : returned.value[key] \in STRING
        /\ ~Recognised(parser_module, raw_output) =>
               \A key \in VersionKeys : returned.value[key] = ""

\* parse_version returned from a text that is not empty and holds none of
\* the patterns
C19_Witness ==
    /\ VersionReturned
    /\ raw_output # ""
    /\ ~Recognised(parser_module, raw_output)

NeighborFunctions == {"parse_cdp_neighbors_detail", "parse_lldp_neighbors_detail"}

NeighborsReturned == pc = "returned" /\ parser_function \in NeighborFunctions

\* the parser modules whose parse_cdp_neighbors_detail is `return []`
CdpStubs ==
    {"ndg.parsers.arista_eos", "ndg.parsers.paloalto_panos", "ndg.parsers.juniper_junos",
     "ndg.parsers.fortinet_fortios", "ndg.parsers.sonic"}

\* C20: every observation a CDP or LLDP parser returns, from the blocks of
\* the output or from the lines of its table, has a remote_device, and it
\* is not the empty string.
C20_NoNamelessNeighbor ==
    NeighborsReturned =>
        \A n \in 1..Len(returned.value) :
            /\ "remote_device" \in DOMAIN returned.value[n]
            /\ returned.value[n].remote_device # ""

\* a parser that reads its output returned no observation from a text that
\* is not blank
C20_Witness ==
    /\ NeighborsReturned
    /\ ~(parser_function = "parse_cdp_neighbors_detail" /\ parser_module \in CdpStubs)
    /\ str_strip(raw_output) # ""
    /\ returned.value = <<>>

\* the field of collect_neighbors' record a step fills
NeighborField(step) == IF step = "cdp" THEN "cdp_neighbors" ELSE "lldp_neighbors"

\* the device types whose command set has no CDP command
CdpLess == {tag \in DOMAIN _PARSER_MAP : get_commands(tag).value.cdp_neighbors = ""}

NeighborsCallReturns == pc = "return" /\ command = "neighbors" /\ SessionOpened

\* C18: when the platform's command for CDP (or LLDP) is the empty string,
\* collect_neighbors skips the step: no command is sent and no parser is
\* called for the protocol, no error is recorded for it and its list in the
\* record is empty; and the CDP parser of every platform without a CDP
\* command returns the empty sequence for every text.
C18_MissingProtocolSkipped ==
    NeighborsCallReturns =>
        \A step \in {"cdp", "lldp"} :
            cmds[CommandKey(step)] = "" =>
                /\ outcome[step] = "skipped"
                /\ "" \notin Range(sent)
                /\ [module |-> parser, function |-> ParserFunction(step)] \notin Range(parsed)
                /\ step \notin ErrorKeys(result)
                /\ result[NeighborField(step)] = <<>>
                /\ step = "cdp" =>
                       \A tag \in CdpLess :
                           \A text \in Texts(CdpFragments(_PARSER_MAP[tag]), MaxFragments) :
                               parse_cdp_neighbors_detail(_PARSER_MAP[tag], text) = <<>>

\* collect_neighbors returns for a platform without a CDP command whose
\* LLDP step succeeded
C18_Witness ==
    /\ NeighborsCallReturns
    /\ cmds["cdp_neighbors"] = ""
    /\ outcome["cdp"] = "skipped"
    /\ outcome["lldp"] = "ok"
    /\ Len(sent) = 2

\* the observation reports the neighbor the block was written from
Observes(entry, adj) ==
    /\ Get(entry, "remote_device", "") = adj.remote_device
    /\ Get(entry, "local_interface", "") = adj.local_interface
    /\ Get(entry, "remote_interface", "") = adj.remote_interface

\* C21: for a text of two blocks separated by the protocol's delimiter, each
\* naming a remote device and a local interface, the neighbor parser returns
\* exactly two observations, in the order of the blocks, and each
\* observation's local and remote interface are those of the block its
\* remote device stands in.
C21_TwoBlocksTwoObservations ==
    NeighborsReturned =>
        \A two \in TwoBlockTexts(parser_function, parser_module) :
            raw_output = two.text =>
                /\ Len(returned.value) = 2
                /\ Observes(returned.value[1], two.first)
                /\ Observes(returned.value[2], two.second)

----------------------------------------------------------------------------
(* The diagram adapters (src/ndg/diagram.py) *)

\* number of calls made on one Topology: add_node, add_edge and the two
\* generators
MaxDiagramCalls == 4

RECURSIVE Str(_)
\* a name as the text an f-string writes
Str(name) == IF name = <<>> THEN "" ELSE Head(name) \o Str(Tail(name))

RECURSIVE str_replace(_, _, _)
\* str.replace(old, new) for a one-character old
str_replace(text, old, new) ==
    IF text = "" THEN ""
    ELSE (IF At(text, 1) = old THEN new ELSE At(text, 1))
             \o str_replace(Tail(text), old, new)

RECURSIVE str_join(_, _)
\* sep.join(parts)
str_join(sep, parts) ==
    IF parts = <<>> THEN ""
    ELSE IF Len(parts) = 1 THEN parts[1]
    ELSE parts[1] \o sep \o str_join(sep, Tail(parts))

\* `sub in text`
str_contains(text, sub) ==
    \E n \in 1..(Len(text) - Len(sub) + 1) : SubSeq(text, n, n + Len(sub) - 1) = sub

\* [part] if part else []
IfAny(part) == IF part = "" THEN <<>> ELSE <<part>>

_SHAPE_MAP ==
    [tag \in {"cisco_ios", "cisco_xe", "cisco_nxos", "arista_eos", "paloalto_panos",
              "juniper_junos", "juniper", "fortinet", "fortinet_ssh", "sonic_ssh",
              "linux", "extreme_exos", "extreme", "extreme_nos", ""} |->
        IF tag \in {"paloalto_panos", "fortinet", "fortinet_ssh"} THEN "octagon"
        ELSE IF tag = "" THEN "ellipse"
        ELSE "box3d"]

\* the icons, each written as its code points
Switch == "U+1F500"
Shield == "U+1F6E1 U+FE0F"
Laptop == "U+1F4BB"

_MERMAID_ICON ==
    [tag \in DOMAIN _SHAPE_MAP |->
        IF tag \in {"paloalto_panos", "fortinet", "fortinet_ssh"} THEN Shield
        ELSE IF tag = "" THEN Laptop
        ELSE Switch]

\* Node.label
label(node) ==
    str_join("\n", <<Str(IF node.hostname # <<>> THEN node.hostname ELSE node.id)>>
                       \o IfAny(node.model) \o IfAny(node.os_version))

_gv_safe(text) == str_replace(str_replace(text, "\"", "\\\""), "\n", "\\n")

_mermaid_id(name) ==
    str_replace(str_replace(str_replace(name, "-", "_"), ".", "_"), "/", "_")

\* " <-> ".join of the interface labels that are not empty
EdgeLabel(edge) == str_join(" ↔ ", IfAny(edge.source_intf) \o IfAny(edge.target_intf))

DotNodeLine(nid, node) ==
    "    \"" \o Str(nid) \o "\" [label=\"" \o _gv_safe(label(node)) \o "\", shape="
        \o Get(_SHAPE_MAP, node.device_type, "ellipse") \o "];"

DotEdgeLine(edge) ==
    "    \"" \o Str(edge.source) \o "\" -- \"" \o Str(edge.target) \o "\" [label=\""
        \o _gv_safe(EdgeLabel(edge)) \o "\"];"

\* what a generator leaves: the text it returns and the Topology after the call
Drawn(text, topo) == [text |-> text, topo |-> topo]

\* the text generate_graphviz_dot builds; keys is list(topo.nodes), the ids
\* in the order the dict iterates them
DotText(topo, keys) ==
    str_join("\n",
        <<"graph network_topology {",
          "    graph [layout=neato, overlap=false, splines=true, bgcolor=\"#f8f9fa\"];",
          "    node  [style=filled, fillcolor=\"#dce6f1\", fontname=\"Helvetica\", fontsize=10];",
          "    edge  [fontname=\"Helvetica\", fontsize=8, color=\"#555555\"];",
          "">>
        \o [n \in 1..Len(keys) |-> DotNodeLine(keys[n], topo.nodes[keys[n]])]
        \o <<"">>
        \o [n \in 1..Len(topo.edges) |-> DotEdgeLine(topo.edges[n])]
        \o <<"}">>)

\* generate_graphviz_dot taking the edges off topo.edges as it draws them
generate_graphviz_dot_draining(topo, keys) ==
    Drawn(DotText(topo, keys), [topo EXCEPT !.edges = <<>>])

\* generate_graphviz_dot
generate_graphviz_dot(topo, keys) == Drawn(DotText(topo, keys), topo)

MermaidLabel(nid, node) ==
    Get(_MERMAID_ICON, node.device_type, Laptop) \o " "
        \o Str(IF node.hostname # <<>> THEN node.hostname ELSE nid)
        \o (IF node.model # "" THEN "<br/>" \o node.model ELSE "")
        \o (IF node.os_version # "" THEN "<br/>" \o node.os_version ELSE "")

MermaidNodeLine(nid, node) ==
    "    " \o _mermaid_id(Str(nid)) \o "[\"" \o MermaidLabel(nid, node) \o "\"]"

MermaidEdgeLine(edge) ==
    IF EdgeLabel(edge) # ""
    THEN "    " \o _mermaid_id(Str(edge.source)) \o " -- \"" \o EdgeLabel(edge)
             \o "\" --- " \o _mermaid_id(Str(edge.target))
    ELSE "    " \o _mermaid_id(Str(edge.source)) \o " --- " \o _mermaid_id(Str(edge.target))

IsFirewall(node) ==
    str_contains(node.device_type, "paloalto") \/ str_contains(node.device_type, "fortinet")

RECURSIVE Filter(_, _, _)
\* the ids of keys, in order, whose node is a firewall (or is not)
Filter(topo, keys, firewall) ==
    IF keys = <<>> THEN <<>>
    ELSE (IF IsFirewall(topo.nodes[Head(keys)]) = firewall
          THEN <<_mermaid_id(Str(Head(keys)))>> ELSE <<>>)
             \o Filter(topo, Tail(keys), firewall)

ClassLine(ids, class) ==
    IF ids = <<>> THEN <<>>
    ELSE <<"    class " \o str_join(",", ids) \o " " \o class \o ";">>

\* generate_mermaid; keys is list(topo.nodes)
generate_mermaid(topo, keys) ==
    Drawn(str_join("\n",
              <<"graph TD">>
              \o [n \in 1..Len(keys) |-> MermaidNodeLine(keys[n], topo.nodes[keys[n]])]
              \o <<"">>
              \o [n \in 1..Len(topo.edges) |-> MermaidEdgeLine(topo.edges[n])]
              \o <<"", "    %% Styling",
                   "    classDef router fill:#dce6f1,stroke:#333,stroke-width:1px;",
                   "    classDef firewall fill:#f9d6d5,stroke:#333,stroke-width:1px;">>
              \o ClassLine(Filter(topo, keys, FALSE), "router")
              \o ClassLine(Filter(topo, keys, TRUE), "firewall")),
          topo)

\* the nodes and edges handed to the Topology that is drawn
DiagramNodes ==
    { Node(<<"s", "w", "-", "1", ".", "x">>, <<"s", "w", "-", "1", ".", "x">>,
           "cisco_ios", "C\"9300", "15.2", <<"1", ".", "1">>),
      Node(<<"S", "W", "-", "1">>, <<>>, "linux", "", "v2", <<>>),
      Node(<<"f", "w", "/", "0">>, <<>>, "paloalto_panos", "PA-220", "", <<>>),
      Node(<<"r", "2">>, <<"r", "2">>, "", "", "", <<>>) }

DiagramEdges ==
    { Edge(<<"s", "w", "-", "1", ".", "x">>, <<"f", "w", "/", "0">>, "Gi0/1", "e1/1"),
      Edge(<<"f", "w", "/", "0">>, <<"S", "W", "-", "1">>, "", ""),
      Edge(<<"r", "2">>, <<"f", "w", "/", "0">>, "", "Gi0/2") }

\* the key add_node stores a node under, if the call stores it
KeyAdded(keys, call) ==
    IF call.op = "add_node" /\ _canonicalise(call.arg.id) \notin Range(keys)
    THEN Append(keys, _canonicalise(call.arg.id))
    ELSE keys

RECURSIVE Keys(_, _)
\* list(topo.nodes) after the first n calls: a dict iterates its keys in
\* the order they were inserted
Keys(log, n) == IF n = 0 THEN <<>> ELSE KeyAdded(Keys(log, n - 1), log[n])

InitDiagram ==
    /\ nodes = EmptyDict
    /\ edges = <<>>
    /\ _seen_edges = {}
    /\ calls = <<>>
    /\ device_facts = <<>>
    /\ neighbor_data = <<>>
    /\ _host_to_hostname = EmptyDict
    /\ local_hostname = <<>>
    /\ facts_idx = 0
    /\ nd_idx = 0
    /\ nbr_idx = 0
    /\ pc = "diagram"
    /\ c_in = <<>>
    /\ c_out = <<>>
    /\ CollectIdle
    /\ ParseIdle

notTopology == <<buildVars, pc, canonVars, collectVars, registryVars, parseVars>>

\* topo.add_node(node)
DiagramAddNode ==
    /\ pc = "diagram"
    /\ Len(calls) < MaxDiagramCalls
    /\ \E node \in DiagramNodes :
          /\ SetTopology(add_node(CurrentTopology, node))
          /\ calls' = Append(calls, [op |-> "add_node", arg |-> node])
    /\ UNCHANGED notTopology

\* topo.add_edge(edge)
DiagramAddEdge ==
    /\ pc = "diagram"
    /\ Len(calls) < MaxDiagramCalls
    /\ \E edge \in DiagramEdges :
          /\ SetTopology(add_edge(CurrentTopology, edge))
          /\ calls' = Append(calls, [op |-> "add_edge", arg |-> edge])
    /\ UNCHANGED notTopology

\* the call of a generator: the Topology it was handed and the text it returned
Generated(op, drawn) ==
    /\ SetTopology(drawn.topo)
    /\ calls' = Append(calls, [op |-> op, arg |-> CurrentTopology, text |-> drawn.text])

\* generate_graphviz_dot(topo)
GenerateDot ==
    /\ pc = "diagram"
    /\ Len(calls) < MaxDiagramCalls
    /\ Generated("generate_graphviz_dot",
                 generate_graphviz_dot(CurrentTopology, Keys(calls, Len(calls))))
    /\ UNCHANGED notTopology

\* generate_mermaid(topo)
GenerateMermaid ==
    /\ pc = "diagram"
    /\ Len(calls) < MaxDiagramCalls
    /\ Generated("generate_mermaid",
                 generate_mermaid(CurrentTopology, Keys(calls, Len(calls))))
    /\ UNCHANGED notTopology

NextDiagram ==
    \/ DiagramAddNode
    \/ DiagramAddEdge
    \/ GenerateDot
    \/ GenerateMermaid

SpecDiagram == InitDiagram /\ [][NextDiagram]_vars

Generators == {"generate_graphviz_dot", "generate_mermaid"}

\* the last call was the call of a generator
GeneratorReturned == calls # <<>> /\ Last(calls).op \in Generators

\* an earlier call of the same generator on the same Topology, with the
\* same keys in the same order
SameCall(earlier, n) ==
    /\ calls[earlier].op = Last(calls).op
    /\ calls[earlier].arg = Last(calls).arg
    /\ Keys(calls, earlier) = Keys(calls, n)

----------------------------------------------------------------------------
(* Properties of the Topology build_topology returns *)

\* the first DeviceFacts record of the list with the canonical id of the n-th
FirstFacts(n) == device_facts[Min({m \in 1..n : FactsId(m) = FactsId(n)})]

\* the Node has the attributes of the DeviceFacts record
CarriesFacts(node, facts) ==
    /\ node.device_type = Get(facts, "device_type", "")
    /\ node.model = Get(facts, "model", "")
    /\ node.os_version = Get(facts, "os_version", "")
    /\ node.mgmt_ip = Get(facts, "host", <<>>)

\* C23: build_topology merges every DeviceFacts record before it enters the
\* first NeighborReport, and in the Topology it returns every canonical id
\* that has a DeviceFacts record is the key of a Node with the device_type,
\* model, os_version and mgmt_ip (= host) of the first such record, whatever
\* the neighbor reports mention.
C23_FactsBeforeReports ==
    /\ nd_idx > 0 => facts_idx = Len(device_facts)
    /\ pc = "done" =>
           \A n \in 1..Len(device_facts) :
               /\ FactsId(n) \in DOMAIN nodes
               /\ CarriesFacts(nodes[FactsId(n)], FirstFacts(n))

\* the build is over; two DeviceFacts records with different attributes and
\* an observation with its own attributes all name the same canonical id
C23_Witness ==
    /\ pc = "done"
    /\ \E n \in 2..Len(device_facts) :
          /\ FactsId(n) = FactsId(1)
          /\ ~CarriesFacts(nodes[FactsId(1)], device_facts[n])
    /\ \E nbr \in AllObservations :
          /\ Truthy(RemoteName(nbr))
          /\ _canonicalise(RemoteName(nbr)) = FactsId(1)
          /\ Get(nbr, "remote_os_version", "") # nodes[FactsId(1)].os_version

\* the hostnames of the DeviceFacts records with the host of the report
HostnamesOf(nd) ==
    { Get(device_facts[n], "hostname", None) :
        n \in {m \in 1..Len(device_facts) :
                 Get(device_facts[m], "host", <<>>) = Get(nd, "host", <<>>)} }

\* the DeviceFacts records with the report's host, if any, agree on the hostname
OneIdentity(nd) == Cardinality(HostnamesOf(nd)) <= 1

\* the local identity of a report: its hostname, else the hostname of the
\* DeviceFacts record with its host, else its host
LocalIdentity(nd) ==
    IF Truthy(Get(nd, "hostname", None)) THEN nd.hostname
    ELSE IF \E hostname \in HostnamesOf(nd) : Truthy(hostname)
         THEN CHOOSE hostname \in HostnamesOf(nd) : Truthy(hostname)
    ELSE Get(nd, "host", <<>>)

\* the observation loop is at an observation of a report
AtObservation == pc = "nbrs" /\ nbr_idx < Len(CurrentNeighbors)

Nameless(n) ==
    /\ ~Truthy(Get(device_facts[n], "hostname", None))
    /\ Truthy(Get(device_facts[n], "host", <<>>))

\* C25: two DeviceFacts records with empty hostnames and different host
\* addresses give two different Nodes in the Topology build_topology
\* returns: their canonical ids differ, and each id is the key of the Node
\* with the mgmt_ip of its own record.
C25_DistinctHostsDistinctNodes ==
    pc = "done" =>
        \A p, q \in 1..Len(device_facts) :
            (Nameless(p) /\ Nameless(q) /\ device_facts[p].host # device_facts[q].host) =>
                /\ FactsId(p) # FactsId(q)
                /\ FactsId(p) \in DOMAIN nodes
                /\ FactsId(q) \in DOMAIN nodes
                /\ nodes[FactsId(p)].mgmt_ip = device_facts[p].host
                /\ nodes[FactsId(q)].mgmt_ip = device_facts[q].host

----------------------------------------------------------------------------
(* Representation invariant of Topology *)

\* C26: after any sequence of add_node and add_edge calls on an empty
\* Topology, _seen_edges is exactly the set of the sorted (source, target)
\* pairs of the Edges of the edge list, the list and the set have the same
\* size, and the source and the target of every stored Edge are canonical.
C26_SeenEdgesMirrorEdges ==
    /\ _seen_edges = {EdgeKey(edges[n]) : n \in 1..Len(edges)}
    /\ Cardinality(_seen_edges) = Len(edges)
    /\ \A n \in 1..Len(edges) :
          /\ _canonicalise(edges[n].source) = edges[n].source
          /\ _canonicalise(edges[n].target) = edges[n].target

\* two Edges are stored, one add_edge call was deduplicated, and an Edge
\* was passed with a target that is not canonical and sorts before its source
C26_Witness ==
    /\ pc = "api"
    /\ Len(edges) = 2
    /\ Cardinality(EdgeCallIdx) = 3
    /\ \E n \in EdgeCallIdx :
          /\ _canonicalise(calls[n].arg.target) # calls[n].arg.target
          /\ StrLess(_canonicalise(calls[n].arg.target), _canonicalise(calls[n].arg.source))

\* C27: the Topology build_topology returns has no self-loop: no Edge has
\* its source equal to its target, also when an observation of a device
\* names the device itself.
C27_NoSelfLoop ==
    pc = "done" => \A n \in 1..Len(edges) : edges[n].source # edges[n].target

\* the DeviceFacts records with the host of the report, by index
SharingHost(nd) ==
    {n \in 1..Len(device_facts) :
        Get(device_facts[n], "host", <<>>) = Get(nd, "host", <<>>)}

\* C28: when several DeviceFacts records have the host of a NeighborReport
\* whose hostname is empty, every Edge the report appends starts at the
\* Node kept for that host, the Node of the first of these records: the
\* lookup in _host_to_hostname agrees with the node mapping.
C28_LookupAgreesWithNodes ==
    [][ ( /\ AtObservation
          /\ ~Truthy(Get(neighbor_data[nd_idx], "hostname", None))
          /\ Cardinality(SharingHost(neighbor_data[nd_idx])) >= 2
          /\ Len(edges') > Len(edges) )
        => edges'[Len(edges')].source = FactsId(Min(SharingHost(neighbor_data[nd_idx]))) ]_vars

----------------------------------------------------------------------------
(* The commands of one collector call *)

\* the keys of the command set in the order the function reads them
CommandOrder(cmd) ==
    IF cmd = "collect" THEN <<"version", "interfaces">>
    ELSE <<"version", "cdp_neighbors", "lldp_neighbors">>

\* log holds commands of the command set in the function's order, each at
\* most once
InOrder(log, cmd, set) ==
    \E at \in [1..Len(log) -> 1..Len(CommandOrder(cmd))] :
        /\ \A n \in 1..Len(log) : log[n] = set[CommandOrder(cmd)[at[n]]]
        /\ \A m, n \in 1..Len(log) : m < n => at[m] < at[n]

\* the session of the current call is open: the connector holds the
\* connection to the call's host and the connection is established
SessionOpen == _connection = creds.host /\ creds.host \in live

\* C29: within one call, collect_device_info issues at most one command per
\* step, in the order version, interfaces, and collect_neighbors in the
\* order version, CDP, LLDP; every command is issued on the one session the
\* call opened, while it is open: none before the session is open and none
\* after it is closed.
C29_CommandsInOrderOnOneSession ==
    [][ (sent' # sent /\ sent' # <<>>) =>
            /\ pc = "steps"
            /\ outcome["connect"] = "ok"
            /\ SessionOpen
            /\ _connection' = _connection
            /\ live' = live
            /\ Len(sent') = Len(sent) + 1
            /\ SubSeq(sent', 1, Len(sent)) = sent
            /\ InOrder(sent', command, cmds) ]_vars

\* the second call of a neighbors batch has issued its three commands and
\* closed its session
C29_Witness ==
    /\ pc = "return"
    /\ command = "neighbors"
    /\ dev_idx = 2
    /\ Len(sent) = 3
    /\ _connection = None
    /\ Len(results) = 1

----------------------------------------------------------------------------
(* connector.py: the methods of one SSHConnector, called in any order *)

\* number of method calls made on one SSHConnector
MaxConnectorCalls == 4

ConfigPool == { <<"hostname r1">>, <<"interface e0", "no shutdown">> }

InitConnector ==
    /\ nodes = EmptyDict
    /\ edges = <<>>
    /\ _seen_edges = {}
    /\ calls = <<>>
    /\ device_facts = <<>>
    /\ neighbor_data = <<>>
    /\ _host_to_hostname = EmptyDict
    /\ local_hostname = None
    /\ facts_idx = 0
    /\ nd_idx = 0
    /\ nbr_idx = 0
    /\ c_in = <<>>
    /\ c_out = <<>>
    /\ pc = "connector"
    /\ inventory \in { <<Credentials(1, c)>> : c \in CredPool }
    /\ command = "collect"
    /\ results = <<>>
    /\ dev_idx = 1
    /\ cmds = EmptyDict
    /\ parser = ""
    /\ result = EmptyDict
    /\ _connection = None
    /\ live = {}
    /\ step_idx = 0
    /\ sent = <<>>
    /\ parsed = <<>>
    /\ outcome = EmptyDict
    /\ faults = 0
    /\ queries = <<>>
    /\ ParseIdle

notConnector ==
    <<topoVars, buildVars, pc, canonVars, registryVars, parseVars, inventory, command,
      results, dev_idx, cmds, parser, result, step_idx, parsed, outcome, faults>>

Called(op, raised) == calls' = Append(calls, [op |-> op, raised |-> raised])

\* ssh.connect()
ConnectCall(how) ==
    /\ pc = "connector"
    /\ Len(calls) < MaxConnectorCalls
    /\ how \in ConnectOutcomes(creds)
    /\ _connection' = connect(Connector(_connection, live), creds, how).self._connection
    /\ live' = connect(Connector(_connection, live), creds, how).self.live
    /\ Called("connect", connect(Connector(_connection, live), creds, how).raised)
    /\ UNCHANGED <<notConnector, sent>>

ConnectReturns == ConnectCall("ok")
ConnectHandlerRaises == ConnectCall("connect_fail")
EnableRaises == ConnectCall("enable_fail")

\* ssh.disconnect()
DisconnectCall ==
    /\ pc = "connector"
    /\ Len(calls) < MaxConnectorCalls
    /\ _connection' = disconnect(Connector(_connection, live))._connection
    /\ live' = disconnect(Connector(_connection, live)).live
    /\ Called("disconnect", FALSE)
    /\ UNCHANGED <<notConnector, sent>>

\* ssh.send(command)
SendCall ==
    /\ pc = "connector"
    /\ Len(calls) < MaxConnectorCalls
    /\ sent' = send(Connector(_connection, live), "show version", sent).sent
    /\ Called("send", send(Connector(_connection, live), "show version", sent).raised)
    /\ UNCHANGED <<notConnector, _connection, live>>

\* ssh.send_config(commands)
SendConfigCall ==
    /\ pc = "connector"
    /\ Len(calls) < MaxConnectorCalls
    /\ \E commands \in ConfigPool :
          /\ sent' = send_config(Connector(_connection, live), commands, sent).sent
          /\ Called("send_config",
                    send_config(Connector(_connection, live), commands, sent).raised)
    /\ UNCHANGED <<notConnector, _connection, live>>

NextConnector ==
    \/ ConnectReturns
    \/ ConnectHandlerRaises
    \/ EnableRaises
    \/ DisconnectCall
    \/ SendCall
    \/ SendConfigCall

SpecConnector == InitConnector /\ [][NextConnector]_vars

\* the connector holds no connection
Disconnected(connection) == connection = None

\* the method of the call that was just made
Method(op) == calls' # calls /\ calls'[Len(calls')].op = op

\* C30: SSHConnector has two states, disconnected and connected: send and
\* send_config on a connector that holds no connection fail and issue no
\* command; disconnect on such a connector does nothing and does not fail;
\* and a connect that raises leaves the connector disconnected, with no
\* connection to the device left established.
C30_TwoStateConnector ==
    [][ /\ ((Method("send") \/ Method("send_config")) /\ Disconnected(_connection)) =>
              /\ calls'[Len(calls')].raised
              /\ sent' = sent
              /\ Disconnected(_connection')
        /\ (Method("disconnect") /\ Disconnected(_connection)) =>
              /\ ~calls'[Len(calls')].raised
              /\ Disconnected(_connection')
              /\ live' = live
              /\ sent' = sent
        /\ (Method("connect") /\ Disconnected(_connection) /\ calls'[Len(calls')].raised) =>
              /\ Disconnected(_connection')
              /\ live' = {} ]_vars

====
